---- MODULE Spec2Model ----
(***************************************************************************)
(* A model of the read-only SQLite file reader: the byte codec and page    *)
(* decoder of src/sqlite/db.rs (Page), its B-tree walkers (Database) and   *)
(* the query paths of src/main.rs.                                         *)
(*                                                                         *)
(* Bytes are integers 0..255.  A u64 is kept as its 8 big-endian bytes, so *)
(* that 64-bit shifts keep their width.  Offsets (usize) are naturals.     *)
(***************************************************************************)
EXTENDS Integers, Sequences, FiniteSets, TLC

VARIABLES
    dbfile,     \* the database file: its pages and how many of them are on disk
    debug,      \* TRUE: built with overflow checks (debug), FALSE: wrapping (release)
    database,   \* the Database made by load
    pc,         \* "start" before load, "open" after it ("failed" when it failed),
                \* "done" after the operation called on the open database
    call,       \* the last operation called and its arguments
    ret,        \* what that operation returned
    vdata,      \* get_varint: the buffer handed to the decoder
    voffset,    \* get_varint: *offset before the call
    vwant,      \* the u64 whose encoding starts at voffset (has: there is one)
    vres,       \* get_varint: what the call left behind
    vpc         \* "ready" before the call, "done" after

vars == <<dbfile, debug, database, pc, call, ret, vdata, voffset, vwant, vres, vpc>>

\* ------------------------------------------------------------------------
\* u64 arithmetic on 8 big-endian bytes
\* ------------------------------------------------------------------------

U64Zero == <<0, 0, 0, 0, 0, 0, 0, 0>>

\* a function over 1..n, taken as the sequence of its values
AsSeq(f) == f \o <<>>

\* value <<= 7 (bits shifted out at the top are lost, as for a Rust u64)
Shl7(v) == AsSeq([i \in 1..8 |-> (v[i] % 2) * 128 + (IF i < 8 THEN v[i + 1] \div 2 ELSE 0)])

\* value += n for a small n, with carry; wraps at 2^64
RECURSIVE AddAt(_, _, _)
AddAt(v, i, n) ==
    IF n = 0 \/ i = 0 THEN v
    ELSE LET s == v[i] + n
         IN  AddAt([v EXCEPT ![i] = s % 256], i - 1, s \div 256)

U64Add(v, n) == AddAt(v, 8, n)

\* ------------------------------------------------------------------------
\* Page::get_varint
\* ------------------------------------------------------------------------

\* for (i, byte) in data[*offset..].iter().enumerate() { ... }
RECURSIVE varint_loop(_, _, _, _)
varint_loop(data, offset, i, value) ==
    IF offset + i >= Len(data)
    THEN \* the loop ran out of bytes: *offset += data.len(); value
         [st |-> "ok", value |-> value, offset |-> offset + Len(data)]
    ELSE LET byte == data[offset + i + 1]
             v2   == U64Add(Shl7(value), byte % 128)
         IN  IF byte < 128
             THEN [st |-> "ok", value |-> v2, offset |-> offset + i + 1]
             ELSE varint_loop(data, offset, i + 1, v2)

\* data[*offset..] panics when *offset > data.len()
get_varint(data, offset) ==
    IF offset > Len(data)
    THEN [st |-> "panic", value |-> U64Zero, offset |-> offset]
    ELSE varint_loop(data, offset, 0, U64Zero)

\* a u64 that does not fit the model's naturals (2^31 and above)
IsHuge(v) == v[1] # 0 \/ v[2] # 0 \/ v[3] # 0 \/ v[4] # 0 \/ v[5] >= 128

\* `as usize` of a u64 below 2^31
ToNat(v) == ((v[5] * 256 + v[6]) * 256 + v[7]) * 256 + v[8]

\* a small natural as u64
U64FromNat(n) ==
    <<0, 0, 0, 0, (n \div 16777216) % 256, (n \div 65536) % 256, (n \div 256) % 256, n % 256>>

\* a < b for two u64 (big-endian bytes compare lexicographically)
RECURSIVE BytesLess(_, _, _)
BytesLess(a, b, i) ==
    IF i > Len(a) \/ i > Len(b) THEN Len(a) < Len(b)
    ELSE IF a[i] # b[i] THEN a[i] < b[i]
    ELSE BytesLess(a, b, i + 1)

U64Less(a, b) == BytesLess(a, b, 1)

\* str::cmp: byte-wise lexicographic order, "Less" | "Equal" | "Greater"
StrCmp(a, b) ==
    IF a = b THEN "Equal" ELSE IF BytesLess(a, b, 1) THEN "Less" ELSE "Greater"

\* ------------------------------------------------------------------------
\* RecordValue, Record
\* ------------------------------------------------------------------------

NullV == [t |-> "Null", i |-> U64Zero, s |-> <<>>]
IntV(bytes8) == [t |-> "Int", i |-> bytes8, s |-> <<>>]
RealV(bytes8) == [t |-> "Real", i |-> bytes8, s |-> <<>>]
TextV(bytes) == [t |-> "Text", i |-> U64Zero, s |-> bytes]
BlobV(bytes) == [t |-> "Blob", i |-> U64Zero, s |-> bytes]

\* ------------------------------------------------------------------------
\* Page::get_be_bytes: the next n bytes of the iterator, right-aligned in 8
\* ------------------------------------------------------------------------

get_be_bytes(n, data, pos) ==
    IF pos + n > Len(data)
    THEN [ok |-> FALSE, bytes |-> U64Zero, pos |-> Len(data)]
    ELSE [ok |-> TRUE,
          bytes |-> AsSeq([i \in 1..8 |-> IF i <= 8 - n THEN 0 ELSE data[pos + (i - (8 - n))]]),
          pos |-> pos + n]

\* ------------------------------------------------------------------------
\* Page::parse_record_values
\* ------------------------------------------------------------------------

\* the width in bytes of serial types 1..6
IntWidth(serial) == IF serial = 5 THEN 6 ELSE IF serial = 6 THEN 8 ELSE serial

\* (&mut values_iter).take(length).collect(): as many bytes as are left
TakeBytes(data, pos, length) ==
    LET n == IF pos + length > Len(data) THEN Len(data) - pos ELSE length
    IN  [bytes |-> SubSeq(data, pos + 1, pos + n), pos |-> pos + n]

\* one turn of the loop went on: the next serial type is at header_offset,
\* values_iter is at pos
ParseOn(header_offset, pos, values) ==
    [st |-> "on", header_offset |-> header_offset, pos |-> pos, values |-> values]

\* the parse ended: st is "ok" (values returned) or "panic"
ParseEnd(st, values) == [st |-> st, header_offset |-> 0, pos |-> 0, values |-> values]

\* the body of while header_offset < header_size - 1 { ... }: one serial
\* type is read and its value taken; pos is the place of values_iter in data
parse_step(data, header_start, header_size, header_offset, pos, values) ==
    LET header_end == header_start + header_size - 1
        vr == get_varint(SubSeq(data, header_start + 1, header_end), header_offset)
        serial == vr.value
        ho == vr.offset
    IN  IF vr.st = "panic" THEN ParseEnd("panic", values)
        ELSE IF IsHuge(serial)
        THEN \* serial >= 12: the length exceeds what is left of the buffer
             LET tk == TakeBytes(data, pos, Len(data))
                 val == IF serial[8] % 2 = 0 THEN BlobV(tk.bytes) ELSE TextV(tk.bytes)
             IN  ParseOn(ho, tk.pos, Append(values, val))
        ELSE
        LET ty == ToNat(serial)
        IN  CASE ty = 0 -> ParseOn(ho, pos, Append(values, NullV))
              [] ty \in 1..6 ->
                   LET r == get_be_bytes(IntWidth(ty), data, pos)
                   IN  IF r.ok
                       THEN ParseOn(ho, r.pos, Append(values, IntV(r.bytes)))
                       ELSE ParseEnd("ok", values)
              [] ty = 7 ->
                   LET r == get_be_bytes(8, data, pos)
                   IN  IF r.ok
                       THEN ParseOn(ho, r.pos, Append(values, RealV(r.bytes)))
                       ELSE ParseEnd("ok", values)
              [] ty = 8 -> ParseOn(ho, pos, Append(values, IntV(U64FromNat(0))))
              [] ty = 9 -> ParseOn(ho, pos, Append(values, IntV(U64FromNat(1))))
              [] ty >= 12 ->
                   LET tk == TakeBytes(data, pos, (ty - 12) \div 2)
                       val == IF ty % 2 = 0 THEN BlobV(tk.bytes) ELSE TextV(tk.bytes)
                   IN  ParseOn(ho, tk.pos, Append(values, val))
              [] OTHER -> \* 10, 11: panic!("Invalid serial type")
                   ParseEnd("panic", values)

\* the return after the last turn r of the loop
parse_turn(data, header_start, header_size, r) ==
    IF r.st = "on" THEN [st |-> "ok", values |-> r.values]
    ELSE [st |-> r.st, values |-> r.values]

\* the turn after turn r, where the loop goes on
parse_again(data, header_start, header_size, r) ==
    IF r.st = "on" /\ r.header_offset < header_size - 1
    THEN parse_step(data, header_start, header_size, r.header_offset, r.pos, r.values)
    ELSE r

\* up to n turns of the loop after turn r: the first half of them, then the
\* others
RECURSIVE parse_turns(_, _, _, _, _)
parse_turns(data, header_start, header_size, n, r) ==
    IF ~(r.st = "on" /\ r.header_offset < header_size - 1) THEN r
    ELSE IF n <= 1 THEN parse_again(data, header_start, header_size, r)
    ELSE parse_turns(data, header_start, header_size, n - n \div 2,
                     parse_turns(data, header_start, header_size, n \div 2, r))

\* while header_offset < header_size - 1 { ... }: every turn reads a byte of
\* the header or more, so the loop has header_size - 1 turns at most
parse_loop(data, header_start, header_size, header_offset, pos, values) ==
    parse_turn(data, header_start, header_size,
               parse_turns(data, header_start, header_size, header_size - 1,
                           ParseOn(header_offset, pos, values)))

\* A header_size of 0 panics in every build: `header_size - 1` underflows
\* (overflow checks), or wraps and the header slice then starts after its
\* end.  A header_size of 2^31 or more puts header_end past the buffer, or
\* wraps it below header_start: a panic again.
parse_record_values(data) ==
    LET hr == get_varint(data, 0)
        header_start == hr.offset
    IN  IF IsHuge(hr.value) \/ ToNat(hr.value) = 0
        THEN [st |-> "panic", values |-> <<>>]
        ELSE LET header_size == ToNat(hr.value)
                 header_end  == header_start + header_size - 1
             IN  IF header_end > Len(data)   \* data[header_end..]
                 THEN [st |-> "panic", values |-> <<>>]
                 ELSE parse_loop(data, header_start, header_size, 0, header_end, <<>>)

\* ------------------------------------------------------------------------
\* i64::to_string / format_record_value
\* ------------------------------------------------------------------------

\* long division of a big-endian byte string by 10: <<quotient, remainder>>
RECURSIVE DivMod10(_, _, _, _)
DivMod10(v, i, rem, q) ==
    IF i > Len(v) THEN <<q, rem>>
    ELSE LET cur == rem * 256 + v[i]
         IN  DivMod10(v, i + 1, cur % 10, Append(q, cur \div 10))

\* the decimal digits (ASCII) of an unsigned 8-byte number
RECURSIVE DecDigits(_, _)
DecDigits(v, acc) ==
    LET dm == DivMod10(v, 1, 0, <<>>)
        acc2 == <<48 + dm[2]>> \o acc
    IN  IF dm[1] = U64Zero THEN acc2 ELSE DecDigits(dm[1], acc2)

\* two's complement negation of 8 bytes
Negate(v) == U64Add(AsSeq([i \in 1..8 |-> 255 - v[i]]), 1)

\* i64::to_string of the 8 bytes read as a signed number
I64ToString(v) ==
    IF v[1] >= 128 THEN <<45>> \o DecDigits(Negate(v), <<>>) ELSE DecDigits(v, <<>>)

\* f64::to_string is not computed: the rendering is kept apart from every
\* byte string by a leading -1
F64ToString(v) == <<-1>> \o v

\* main.rs format_record_value; Page::get_index_interior_entry renders its
\* key the same way
format_record_value(value) ==
    CASE value.t = "Text" -> value.s
      [] value.t = "Int"  -> I64ToString(value.i)
      [] value.t = "Real" -> F64ToString(value.i)
      [] value.t = "Null" -> <<78, 85, 76, 76>>                 \* "NULL"
      [] OTHER            -> <<91, 66, 76, 79, 66, 93>>         \* "[BLOB]"

\* ------------------------------------------------------------------------
\* Page
\* ------------------------------------------------------------------------

NoChild == [some |-> FALSE, v |-> 0]
SomeChild(n) == [some |-> TRUE, v |-> n]

NoPage == [typ |-> "None", cell_pointers |-> <<>>, right_most_child |-> NoChild, data |-> <<>>]

\* u32::from_be_bytes; a page number of 2^31 or more lies beyond every file
\* of the model and is kept as 2^31 - 1
BeU32(b0, b1, b2, b3) ==
    IF b0 >= 128 THEN 2147483647 ELSE ((b0 * 256 + b1) * 256 + b2) * 256 + b3

IsInterior(typ) == typ \in {"TableInterior", "IndexInterior"}

\* Page::from_data.  checks: the build panics on arithmetic overflow (a debug
\* build); without them `ptr as usize - offset` wraps, and the wrapped
\* pointer 2^64 + d is kept as the negative number d.
from_data(checks, page_size, data) ==
    IF Len(data) = 0 \/ data[1] \notin {13, 5, 10, 2}
    THEN [st |-> "panic", page |-> NoPage]
    ELSE
    LET typ == CASE data[1] = 13 -> "TableLeaf"
                 [] data[1] = 5  -> "TableInterior"
                 [] data[1] = 10 -> "IndexLeaf"
                 [] OTHER        -> "IndexInterior"
        cell_pointer_start == IF IsInterior(typ) THEN 12 ELSE 8
    IN  IF Len(data) < (IF IsInterior(typ) THEN 12 ELSE 5)
        THEN [st |-> "panic", page |-> NoPage]
        ELSE
        LET right_most_child ==
                IF IsInterior(typ)
                THEN SomeChild(BeU32(data[9], data[10], data[11], data[12]))
                ELSE NoChild
            cell_count  == data[4] * 256 + data[5]
            data_offset == cell_pointer_start + cell_count * 2
            offset      == page_size - Len(data) + data_offset
            raw(k)      == data[cell_pointer_start + 2 * k - 1] * 256
                           + data[cell_pointer_start + 2 * k]
        IN  IF data_offset > Len(data)
            THEN [st |-> "panic", page |-> NoPage]
            ELSE IF checks /\ \E k \in 1..cell_count : raw(k) < offset
            THEN [st |-> "panic", page |-> NoPage]
            ELSE [st |-> "ok",
                  page |-> [typ |-> typ,
                            cell_pointers |-> AsSeq([k \in 1..cell_count |-> raw(k) - offset]),
                            right_most_child |-> right_most_child,
                            data |-> SubSeq(data, data_offset + 1, Len(data))]]

NoRecord == [id |-> U64Zero, values |-> <<>>]

\* Page::get_record
get_record(page, pointer) ==
    IF pointer < 0 THEN [st |-> "panic", rec |-> NoRecord]
    ELSE
    LET size == get_varint(page.data, pointer)
    IN  IF size.st = "panic" THEN [st |-> "panic", rec |-> NoRecord]
        ELSE
        LET id == get_varint(page.data, size.offset)
        IN  IF id.st = "panic" \/ id.offset > Len(page.data)
            THEN [st |-> "panic", rec |-> NoRecord]
            ELSE
            LET pr == parse_record_values(SubSeq(page.data, id.offset + 1, Len(page.data)))
            IN  IF pr.st = "panic" THEN [st |-> "panic", rec |-> NoRecord]
                ELSE [st |-> "ok", rec |-> [id |-> id.value, values |-> pr.values]]

\* Page::records, collected: every cell decoded in cell order
records(page) ==
    LET rs == AsSeq([k \in 1..Len(page.cell_pointers) |-> get_record(page, page.cell_pointers[k])])
    IN  IF \E k \in 1..Len(rs) : rs[k].st = "panic"
        THEN [st |-> "panic", items |-> <<>>]
        ELSE [st |-> "ok", items |-> AsSeq([k \in 1..Len(rs) |-> rs[k].rec])]

\* Page::is_leaf
is_leaf(page) == page.typ \in {"TableLeaf", "IndexLeaf"}

\* the four bytes at pointer as a page number
ChildAt(page, pointer) ==
    BeU32(page.data[pointer + 1], page.data[pointer + 2],
          page.data[pointer + 3], page.data[pointer + 4])

\* Page::get_child_pages.  A wrapped pointer (negative here) of 2^64 - 4 or
\* more passes `pointer + 4 <= len` after wrapping again and then indexes
\* out of range; any other wrapped pointer fails the test and is skipped.
RECURSIVE child_loop(_, _, _)
child_loop(page, k, child_pages) ==
    IF k > Len(page.cell_pointers)
    THEN [st |-> "ok",
          items |-> IF page.right_most_child.some
                    THEN Append(child_pages, page.right_most_child.v)
                    ELSE child_pages]
    ELSE LET pointer == page.cell_pointers[k]
         IN  IF pointer < 0
             THEN IF pointer >= -4 THEN [st |-> "panic", items |-> <<>>]
                  ELSE child_loop(page, k + 1, child_pages)
             ELSE IF pointer + 4 <= Len(page.data)
             THEN child_loop(page, k + 1, Append(child_pages, ChildAt(page, pointer)))
             ELSE child_loop(page, k + 1, child_pages)

\* get_child_pages without `if let Some(right_child) = self.right_most_child`
get_child_pages_of_cells(page) ==
    IF IsInterior(page.typ)
    THEN child_loop([page EXCEPT !.right_most_child = NoChild], 1, <<>>)
    ELSE [st |-> "ok", items |-> <<>>]

get_child_pages(page) ==
    IF IsInterior(page.typ) THEN child_loop(page, 1, <<>>)
    ELSE [st |-> "ok", items |-> <<>>]

NoIndexEntry == [country |-> <<>>, rowid |-> U64Zero, child_page |-> 0]

\* Page::get_index_leaf_entry: (country, rowid)
get_index_leaf_entry(page, pointer) ==
    IF pointer < 0 THEN [st |-> "panic", e |-> NoIndexEntry]
    ELSE
    LET size == get_varint(page.data, pointer)
    IN  IF size.st = "panic" \/ size.offset > Len(page.data)
        THEN [st |-> "panic", e |-> NoIndexEntry]
        ELSE
        LET pr == parse_record_values(SubSeq(page.data, size.offset + 1, Len(page.data)))
        IN  IF pr.st = "panic" \/ Len(pr.values) # 2
            THEN [st |-> "panic", e |-> NoIndexEntry]
            ELSE IF pr.values[1].t # "Text" \/ pr.values[2].t # "Int"
            THEN [st |-> "panic", e |-> NoIndexEntry]
            ELSE [st |-> "ok",
                  e |-> [country |-> pr.values[1].s, rowid |-> pr.values[2].i,
                         child_page |-> 0]]

\* Page::get_index_interior_entry: (country_key, child_page)
get_index_interior_entry(page, pointer) ==
    IF pointer < 0 \/ pointer + 4 > Len(page.data)
    THEN [st |-> "panic", e |-> NoIndexEntry]
    ELSE
    LET size == get_varint(page.data, pointer + 4)
    IN  IF size.st = "panic" \/ size.offset > Len(page.data)
        THEN [st |-> "panic", e |-> NoIndexEntry]
        ELSE
        LET pr == parse_record_values(SubSeq(page.data, size.offset + 1, Len(page.data)))
        IN  IF pr.st = "panic" \/ Len(pr.values) = 0
            THEN [st |-> "panic", e |-> NoIndexEntry]
            ELSE [st |-> "ok",
                  e |-> [country |-> format_record_value(pr.values[1]),
                         rowid |-> U64Zero,
                         child_page |-> ChildAt(page, pointer)]]

\* Page::index_leaf_entries
index_leaf_entries(page) ==
    IF page.typ # "IndexLeaf" THEN [st |-> "panic", items |-> <<>>]
    ELSE
    LET es == AsSeq([k \in 1..Len(page.cell_pointers) |->
                  get_index_leaf_entry(page, page.cell_pointers[k])])
    IN  IF \E k \in 1..Len(es) : es[k].st = "panic"
        THEN [st |-> "panic", items |-> <<>>]
        ELSE [st |-> "ok", items |-> AsSeq([k \in 1..Len(es) |-> es[k].e])]

\* Page::index_interior_entries
index_interior_entries(page) ==
    IF page.typ # "IndexInterior" THEN [st |-> "panic", items |-> <<>>]
    ELSE
    LET es == AsSeq([k \in 1..Len(page.cell_pointers) |->
                  get_index_interior_entry(page, page.cell_pointers[k])])
    IN  IF \E k \in 1..Len(es) : es[k].st = "panic"
        THEN [st |-> "panic", items |-> <<>>]
        ELSE [st |-> "ok", items |-> AsSeq([k \in 1..Len(es) |-> es[k].e])]

NoTableEntry == [child_page |-> 0, rowid_key |-> U64Zero]

\* Page::get_table_interior_entry: (child_page, rowid_key)
get_table_interior_entry(page, pointer) ==
    IF pointer < 0 \/ pointer + 4 > Len(page.data)
    THEN [st |-> "panic", e |-> NoTableEntry]
    ELSE LET key == get_varint(page.data, pointer + 4)
         IN  [st |-> "ok",
              e |-> [child_page |-> ChildAt(page, pointer), rowid_key |-> key.value]]

\* Page::table_interior_entries
table_interior_entries(page) ==
    IF page.typ # "TableInterior" THEN [st |-> "panic", items |-> <<>>]
    ELSE
    LET es == AsSeq([k \in 1..Len(page.cell_pointers) |->
                  get_table_interior_entry(page, page.cell_pointers[k])])
    IN  IF \E k \in 1..Len(es) : es[k].st = "panic"
        THEN [st |-> "panic", items |-> <<>>]
        ELSE [st |-> "ok", items |-> AsSeq([k \in 1..Len(es) |-> es[k].e])]

\* ------------------------------------------------------------------------
\* The file format's varint encoding (1-9 bytes), used to build inputs
\* ------------------------------------------------------------------------

\* bit j of v, j = 1 the most significant of the 64
BitOf(v, j) == (v[((j - 1) \div 8) + 1] \div (2 ^ (7 - ((j - 1) % 8)))) % 2

\* the n bits first..first+n-1 of v as a number
RECURSIVE BitsFrom(_, _, _)
BitsFrom(v, first, n) ==
    IF n = 0 THEN 0 ELSE BitsFrom(v, first, n - 1) * 2 + BitOf(v, first + n - 1)

\* the 7 bits first..first+6 of v as a number
Group7(v, first) == BitsFrom(v, first, 7)

\* the 7-bit groups of the low 56 bits, most significant first
LowGroups(v) == AsSeq([g \in 1..8 |-> Group7(v, 9 + 7 * (g - 1))])

\* how many of the 8 low groups are needed (at least one)
RECURSIVE GroupsNeeded(_, _)
GroupsNeeded(gs, g) ==
    IF g = 8 \/ gs[g] # 0 THEN 9 - g ELSE GroupsNeeded(gs, g + 1)

\* the last n groups, all but the last with the continuation bit
LastGroups(gs, n) == AsSeq([k \in 1..n |-> gs[8 - n + k] + (IF k < n THEN 128 ELSE 0)])

ShortVarint(gs) == LastGroups(gs, GroupsNeeded(gs, 1))

EncodeVarint(v) ==
    IF v[1] = 0
    THEN ShortVarint(LowGroups(v))
    ELSE \* nine bytes: the top 56 bits in eight groups, then the low byte whole
         AsSeq([k \in 1..9 |-> IF k < 9 THEN Group7(v, 1 + 7 * (k - 1)) + 128 ELSE v[8]])

\* ------------------------------------------------------------------------
\* The database file.  A file is described by its pages (`pages`, page 1
\* first) and by how many of them are on disk (`present`: a truncated copy
\* misses its last pages); the bytes follow from the file format.
\* A page is [typ, cells, right]; a cell is [child, rowid, values] with
\*   TableLeaf      rowid, values          TableInterior  child, rowid (the key)
\*   IndexLeaf      values                 IndexInterior  child, values
\* and a value is [t, n, s]: Null, Int n or Text s.
\* ------------------------------------------------------------------------

PageSize == 256

DB_HEADER_SIZE == 100

ANull == [t |-> "Null", n |-> 0, s |-> <<>>]
AInt(n) == [t |-> "Int", n |-> n, s |-> <<>>]
AText(s) == [t |-> "Text", n |-> 0, s |-> s]

ACell(child, rowid, values) == [child |-> child, rowid |-> rowid, values |-> values]

VarintNat(n) == EncodeVarint(U64FromNat(n))

Be16(n) == <<(n \div 256) % 256, n % 256>>
Be32(n) == <<(n \div 16777216) % 256, (n \div 65536) % 256, (n \div 256) % 256, n % 256>>

Zeros(n) == AsSeq([k \in 1..n |-> 0])

RECURSIVE Concat(_)
Concat(ss) == IF Len(ss) = 0 THEN <<>> ELSE Head(ss) \o Concat(Tail(ss))

\* the serial type of a value, as the standard writer picks it
SerialType(v) ==
    CASE v.t = "Null" -> 0
      [] v.t = "Int"  -> IF v.n = 0 THEN 8 ELSE IF v.n = 1 THEN 9
                         ELSE IF v.n < 128 THEN 1 ELSE 2
      [] OTHER        -> 13 + 2 * Len(v.s)

ValueBytes(v) ==
    CASE v.t = "Null" -> <<>>
      [] v.t = "Int"  -> IF v.n < 2 THEN <<>> ELSE IF v.n < 128 THEN <<v.n>> ELSE Be16(v.n)
      [] OTHER        -> v.s

\* [header_size] [serial types] [values]
RecordOf(serials, body) ==
    VarintNat(IF Len(serials) + 1 < 128 THEN Len(serials) + 1 ELSE Len(serials) + 2)
    \o serials \o body

EncodeRecord(values) ==
    RecordOf(Concat(AsSeq([k \in 1..Len(values) |-> VarintNat(SerialType(values[k]))])),
             Concat(AsSeq([k \in 1..Len(values) |-> ValueBytes(values[k])])))

\* [child page] [payload size] [rowid] [payload], as the page kind has them
CellOf(typ, c, rec) ==
    (IF IsInterior(typ) THEN Be32(c.child) ELSE <<>>)
    \o (IF typ = "TableInterior" THEN <<>> ELSE VarintNat(Len(rec)))
    \o (IF typ \in {"TableLeaf", "TableInterior"} THEN VarintNat(c.rowid) ELSE <<>>)
    \o rec

EncodeCell(typ, c) ==
    CellOf(typ, c, IF typ = "TableInterior" THEN <<>> ELSE EncodeRecord(c.values))

KindByte(typ) ==
    CASE typ = "TableLeaf" -> 13 [] typ = "TableInterior" -> 5
      [] typ = "IndexLeaf" -> 10 [] OTHER -> 2

RECURSIVE CellStarts(_, _, _)
\* where each cell begins in the page: the first cell ends the page, the
\* next lies before it, and so on
CellStarts(cells, k, end) ==
    IF k > Len(cells) THEN <<>>
    ELSE <<end - Len(cells[k])>> \o CellStarts(cells, k + 1, end - Len(cells[k]))

RECURSIVE Reverse(_)
Reverse(ss) == IF Len(ss) = 0 THEN <<>> ELSE Reverse(Tail(ss)) \o <<Head(ss)>>

\* the page made of the encoded cells, which begin at starts
PageLayout(pg, page_size, before, cells, starts) ==
    LET first  == IF Len(cells) = 0 THEN page_size ELSE starts[Len(cells)]
        header == <<KindByte(pg.typ), 0, 0>> \o Be16(Len(cells)) \o Be16(first) \o <<0>>
                  \o (IF IsInterior(pg.typ) THEN Be32(pg.right) ELSE <<>>)
        ptrs   == Concat(AsSeq([k \in 1..Len(cells) |-> Be16(starts[k])]))
    IN  header \o ptrs \o Zeros(first - before - Len(header) - Len(ptrs))
        \o Concat(Reverse(cells))

PageOfCells(pg, page_size, before, cells) ==
    PageLayout(pg, page_size, before, cells, CellStarts(cells, 1, page_size))

\* the bytes of a page from its page header on; before is what precedes the
\* page header in the page (the 100 bytes of the file header in page 1)
EncodePage(pg, page_size, before) ==
    PageOfCells(pg, page_size, before,
                AsSeq([k \in 1..Len(pg.cells) |-> EncodeCell(pg.typ, pg.cells[k])]))

\* the 100 bytes of the file header: the magic string, the page size at
\* bytes 16-17, the rest unused here
FileHeader(page_size) ==
    <<83, 81, 76, 105, 116, 101, 32, 102, 111, 114, 109, 97, 116, 32, 51, 0>>
    \o Be16(page_size) \o Zeros(82)

\* the page_size bytes of page p
PageImage(file, p) ==
    (IF p = 1 THEN FileHeader(PageSize) ELSE <<>>)
    \o EncodePage(file.pages[p], PageSize, IF p = 1 THEN DB_HEADER_SIZE ELSE 0)

FileLen(file) == file.present * PageSize

RECURSIVE FileRead(_, _, _)
RECURSIVE FileReadIn(_, _, _, _)

\* the first take of the len bytes at start, which lie in one page, then
\* the rest
FileReadIn(file, start, len, take) ==
    SubSeq(PageImage(file, (start \div PageSize) + 1),
           (start % PageSize) + 1, (start % PageSize) + take)
    \o FileRead(file, start + take, len - take)

\* the len bytes of the file from byte start on (all of them on disk)
FileRead(file, start, len) ==
    IF len = 0 THEN <<>>
    ELSE FileReadIn(file, start, len,
                    IF len < PageSize - (start % PageSize)
                    THEN len ELSE PageSize - (start % PageSize))

\* ------------------------------------------------------------------------
\* The files of the model: one table t(id integer primary key, country text)
\* with its index idx_t_country, laid out as the standard writer does.
\* ------------------------------------------------------------------------

MaxRows == 4

StrTable == <<116, 97, 98, 108, 101>>
StrIndex == <<105, 110, 100, 101, 120>>
StrT == <<116>>
StrIdxTCountry == <<105, 100, 120, 95, 116, 95, 99, 111, 117, 110, 116, 114, 121>>
StrCountry == <<99, 111, 117, 110, 116, 114, 121>>
StrId == <<105, 100>>
\* "CREATE TABLE t (id integer primary key, country text)"
SqlTable ==
    <<67, 82, 69, 65, 84, 69, 32, 84, 65, 66, 76, 69, 32, 116, 32, 40, 105, 100, 32,
      105, 110, 116, 101, 103, 101, 114, 32, 112, 114, 105, 109, 97, 114, 121, 32,
      107, 101, 121, 44, 32, 99, 111, 117, 110, 116, 114, 121, 32, 116, 101, 120,
      116, 41>>
\* "CREATE INDEX idx_t_country ON t (country)"
SqlIndex ==
    <<67, 82, 69, 65, 84, 69, 32, 73, 78, 68, 69, 88, 32, 105, 100, 120, 95, 116, 95,
      99, 111, 117, 110, 116, 114, 121, 32, 79, 78, 32, 116, 32, 40, 99, 111, 117,
      110, 116, 114, 121, 41>>

\* the countries stored: "a" and "ab"; "b" and "A" are looked up but absent
Countries == {<<97>>, <<97, 98>>}
Targets == Countries \cup {<<98>>, <<65>>}

\* the rowid of the i-th row: 2, 4, 6 (one varint byte), then 256, 320, ...
RowidOf(i) == IF i <= 3 THEN 2 * i ELSE 64 * i

RECURSIVE ChunksOf(_, _)
\* seq cut into runs of c elements (the last one shorter)
ChunksOf(seq, c) ==
    IF Len(seq) <= c THEN <<seq>>
    ELSE <<SubSeq(seq, 1, c)>> \o ChunksOf(SubSeq(seq, c + 1, Len(seq)), c)

TableLeafPage(rows) ==
    [typ |-> "TableLeaf",
     cells |-> AsSeq([k \in 1..Len(rows) |->
                   ACell(0, rows[k].rowid, <<ANull, AText(rows[k].country)>>)]),
     right |-> 0]

\* an interior table page over children: each child is [page, key], key the
\* largest rowid below it
TableInteriorPage(children) ==
    [typ |-> "TableInterior",
     cells |-> AsSeq([k \in 1..(Len(children) - 1) |->
                   ACell(children[k].page, children[k].key, <<>>)]),
     right |-> children[Len(children)].page]

LastRowid(rows) == rows[Len(rows)].rowid

\* the pages of the table tree, its root first at page number base: leaves
\* of c rows; with deep, interior pages of two leaves each under the root
\* (the last takes a third leaf when their number is odd)
TablePages(rows, c, deep, base) ==
    LET leaves == ChunksOf(rows, c)
        L == Len(leaves)
        G == L \div 2
        lastOf(g) == IF g = G THEN L ELSE 2 * g
    IN  IF L = 1 THEN <<TableLeafPage(leaves[1])>>
        ELSE IF ~deep
        THEN <<TableInteriorPage(AsSeq([j \in 1..L |->
                    [page |-> base + j, key |-> LastRowid(leaves[j])]]))>>
             \o AsSeq([j \in 1..L |-> TableLeafPage(leaves[j])])
        ELSE <<TableInteriorPage(AsSeq([g \in 1..G |->
                    [page |-> base + g, key |-> LastRowid(leaves[lastOf(g)])]]))>>
             \o AsSeq([g \in 1..G |->
                    TableInteriorPage([i \in 1..(lastOf(g) - 2 * g + 2) |->
                        [page |-> base + G + 2 * g - 2 + i,
                         key |-> LastRowid(leaves[2 * g - 2 + i])]])])
             \o AsSeq([j \in 1..L |-> TableLeafPage(leaves[j])])

\* row a sorts before row b in the index: by country, then by rowid
IndexBefore(a, b) ==
    \/ StrCmp(a.country, b.country) = "Less"
    \/ a.country = b.country /\ a.rowid < b.rowid

RECURSIVE InsertSorted(_, _)
InsertSorted(sorted, r) ==
    IF Len(sorted) = 0 THEN <<r>>
    ELSE IF IndexBefore(r, sorted[1]) THEN <<r>> \o sorted
    ELSE <<sorted[1]>> \o InsertSorted(Tail(sorted), r)

RECURSIVE IndexOrder(_)
IndexOrder(rows) ==
    IF Len(rows) = 0 THEN <<>>
    ELSE InsertSorted(IndexOrder(Tail(rows)), rows[1])

IndexValues(r) == <<AText(r.country), AInt(r.rowid)>>

IndexLeafPage(entries) ==
    [typ |-> "IndexLeaf",
     cells |-> AsSeq([k \in 1..Len(entries) |-> ACell(0, 0, IndexValues(entries[k]))]),
     right |-> 0]

RECURSIVE SortedSeq(_)
SortedSeq(S) ==
    IF S = {} THEN <<>>
    ELSE LET m == CHOOSE x \in S : \A y \in S : x <= y
         IN  <<m>> \o SortedSeq(S \ {m})

\* the pages of the index tree, its root first at page number base: the
\* entries at the positions seps are the cells of the interior root, the
\* runs between them its leaves
IndexPages(entries, seps, base) ==
    IF seps = {} THEN <<IndexLeafPage(entries)>>
    ELSE LET sp == SortedSeq(seps)
             m  == Len(sp)
             from(j) == IF j = 1 THEN 1 ELSE sp[j - 1] + 1
             to(j)   == IF j = m + 1 THEN Len(entries) ELSE sp[j] - 1
         IN  <<[typ |-> "IndexInterior",
                cells |-> AsSeq([j \in 1..m |-> ACell(base + j, 0, IndexValues(entries[sp[j]]))]),
                right |-> base + m + 1]>>
             \o AsSeq([j \in 1..(m + 1) |-> IndexLeafPage(SubSeq(entries, from(j), to(j)))])

\* the separator positions a tree over n entries can have: no leaf is empty
SepChoices(n) ==
    {S \in SUBSET (2..(n - 1)) : \A x \in S : x + 1 \notin S}

\* page 1: sqlite_schema, [type, name, tbl_name, rootpage, sql]
CatalogPage(table_root, index_root) ==
    [typ |-> "TableLeaf",
     cells |-> <<ACell(0, 1, <<AText(StrTable), AText(StrT), AText(StrT),
                               AInt(table_root), AText(SqlTable)>>),
                 ACell(0, 2, <<AText(StrIndex), AText(StrIdxTCountry), AText(StrT),
                               AInt(index_root), AText(SqlIndex)>>)>>,
     right |-> 0]

\* the whole file: the catalog, then the table and the index (the index
\* first when index_first), the last `missing` pages not on disk
BuildFile(rows, c, deep, seps, index_first, missing) ==
    LET entries == IndexOrder(rows)
        tlen == Len(TablePages(rows, c, deep, 2))
        ilen == Len(IndexPages(entries, seps, 2))
        table_root == IF index_first THEN 2 + ilen ELSE 2
        index_root == IF index_first THEN 2 ELSE 2 + tlen
        tp == TablePages(rows, c, deep, table_root)
        ip == IndexPages(entries, seps, index_root)
        pages == <<CatalogPage(table_root, index_root)>>
                 \o (IF index_first THEN ip \o tp ELSE tp \o ip)
    IN  [pages |-> pages, present |-> Len(pages) - missing]

\* ------------------------------------------------------------------------
\* Database: load, load_page.  Every call returns, beside its result, the
\* file operations it made.
\* st is "ok", "err" (an anyhow error, named by err) or "panic".
\* ------------------------------------------------------------------------

Io(op, arg) == [op |-> op, arg |-> arg]

NoDb == [page_size |-> 0, root_page |-> NoPage]

\* File::open, then the two read_exact of load
LoadIo(page_size) ==
    <<Io("open", 0), Io("read", DB_HEADER_SIZE), Io("read", page_size - DB_HEADER_SIZE)>>

\* Ok(Self { page_size, root_page }) of the decoded root page
load_root(fd, page_size) ==
    IF fd.st = "panic"
    THEN [st |-> "panic", err |-> "", db |-> NoDb, io |-> LoadIo(page_size)]
    ELSE [st |-> "ok", err |-> "",
          db |-> [page_size |-> page_size, root_page |-> fd.page],
          io |-> LoadIo(page_size)]

\* Database::load from the second read on
load_sized(checks, file, page_size) ==
    IF page_size < DB_HEADER_SIZE    \* vec![0; page_size - 100] cannot be made
    THEN [st |-> "panic", err |-> "", db |-> NoDb,
          io |-> <<Io("open", 0), Io("read", DB_HEADER_SIZE)>>]
    ELSE IF FileLen(file) < page_size
    THEN [st |-> "err", err |-> "Io", db |-> NoDb, io |-> LoadIo(page_size)]
    ELSE load_root(from_data(checks, page_size,
                             FileRead(file, DB_HEADER_SIZE, page_size - DB_HEADER_SIZE)),
                   page_size)

\* u16::from_be_bytes([db_header[16], db_header[17]])
header_page_size(db_header) == db_header[17] * 256 + db_header[18]

\* Database::load
load(checks, file) ==
    IF FileLen(file) < DB_HEADER_SIZE
    THEN [st |-> "err", err |-> "Io", db |-> NoDb,
          io |-> <<Io("open", 0), Io("read", DB_HEADER_SIZE)>>]
    ELSE load_sized(checks, file, header_page_size(FileRead(file, 0, DB_HEADER_SIZE)))

\* File::open, seek, read_exact of load_page
PageIo(start, page_data_size) ==
    <<Io("open", 0), Io("seek", start), Io("read", page_data_size)>>

\* Ok(Page::from_data(self.page_size, page_data))
page_read(fd, io) ==
    IF fd.st = "panic"
    THEN [st |-> "panic", err |-> "", page |-> NoPage, io |-> io]
    ELSE [st |-> "ok", err |-> "", page |-> fd.page, io |-> io]

\* Database::load_page from the seek on
read_page(checks, db, file, start, page_data_size) ==
    IF start + page_data_size > FileLen(file)      \* read_exact
    THEN [st |-> "err", err |-> "Io", page |-> NoPage,
          io |-> PageIo(start, page_data_size)]
    ELSE page_read(from_data(checks, db.page_size,
                             FileRead(file, start, page_data_size)),
                   PageIo(start, page_data_size))

\* load_page without `if page_number == 0 { bail! }`: page 0 is read as page 1
load_page_unvalidated(checks, db, file, page_number) ==
    IF page_number > FileLen(file)
    THEN [st |-> "err", err |-> "Io", page |-> NoPage,
          io |-> PageIo(2147483647, db.page_size)]
    ELSE IF page_number <= 1
    THEN read_page(checks, db, file, DB_HEADER_SIZE, db.page_size - DB_HEADER_SIZE)
    ELSE read_page(checks, db, file, (page_number - 1) * db.page_size, db.page_size)

\* load_page seeking to page_number * page_size
load_page_one_past(checks, db, file, page_number) ==
    IF page_number = 0
    THEN [st |-> "err", err |-> "InvalidPageNumber", page |-> NoPage, io |-> <<>>]
    ELSE IF page_number > FileLen(file)
    THEN [st |-> "err", err |-> "Io", page |-> NoPage,
          io |-> PageIo(2147483647, db.page_size)]
    ELSE IF page_number = 1
    THEN read_page(checks, db, file, DB_HEADER_SIZE, db.page_size - DB_HEADER_SIZE)
    ELSE read_page(checks, db, file, page_number * db.page_size, db.page_size)

\* Database::load_page.  A page number past the end of the file is never
\* multiplied out: its seek lands past the end and read_exact fails.
load_page(checks, db, file, page_number) ==
    IF page_number = 0
    THEN [st |-> "err", err |-> "InvalidPageNumber", page |-> NoPage, io |-> <<>>]
    ELSE IF page_number > FileLen(file)
    THEN [st |-> "err", err |-> "Io", page |-> NoPage,
          io |-> PageIo(2147483647, db.page_size)]
    ELSE
    LET page_offset == IF page_number = 1 THEN 0 ELSE (page_number - 1) * db.page_size
        read_offset == IF page_number = 1 THEN DB_HEADER_SIZE ELSE 0
        page_data_size ==
            IF page_number = 1 THEN db.page_size - DB_HEADER_SIZE ELSE db.page_size
    IN  read_page(checks, db, file, page_offset + read_offset, page_data_size)

\* ------------------------------------------------------------------------
\* Database::traverse_btree, get_all_records
\* ------------------------------------------------------------------------

RECURSIVE traverse_btree(_, _, _, _, _, _)
RECURSIVE traverse_children(_, _, _, _, _, _, _)
RECURSIVE traverse_child_done(_, _, _, _, _, _)
RECURSIVE traverse_interior(_, _, _, _, _, _)
RECURSIVE traverse_loaded(_, _, _, _, _, _)

\* self.traverse_btree(child)?: r is what the walk of child k returned
traverse_child_done(checks, db, file, child_pages, k, r) ==
    IF r.st # "ok" THEN r
    ELSE traverse_children(checks, db, file, child_pages, k + 1, r.records, r.io)

\* for child_page_num in child_pages { ... }
traverse_children(checks, db, file, child_pages, k, recs, io) ==
    IF k > Len(child_pages)
    THEN [st |-> "ok", err |-> "", records |-> recs, io |-> io]
    ELSE IF child_pages[k] = 0
    THEN traverse_children(checks, db, file, child_pages, k + 1, recs, io)
    ELSE traverse_child_done(checks, db, file, child_pages, k,
                             traverse_btree(checks, db, file, child_pages[k], recs, io))

\* for record in page.records() { records.push(record) }
traverse_leaf(rs, recs, io) ==
    IF rs.st = "panic"
    THEN [st |-> "panic", err |-> "", records |-> recs, io |-> io]
    ELSE [st |-> "ok", err |-> "", records |-> recs \o rs.items, io |-> io]

\* let child_pages = page.get_child_pages(); for ...
traverse_interior(checks, db, file, cp, recs, io) ==
    IF cp.st = "panic"
    THEN [st |-> "panic", err |-> "", records |-> recs, io |-> io]
    ELSE traverse_children(checks, db, file, cp.items, 1, recs, io)

\* traverse_btree after let page = self.load_page(db_path, page_num)
traverse_loaded(checks, db, file, lp, recs, io) ==
    IF lp.st # "ok"
    THEN [st |-> lp.st, err |-> lp.err, records |-> recs, io |-> io \o lp.io]
    ELSE IF is_leaf(lp.page)
    THEN traverse_leaf(records(lp.page), recs, io \o lp.io)
    ELSE traverse_interior(checks, db, file, get_child_pages(lp.page), recs, io \o lp.io)

traverse_btree(checks, db, file, page_num, recs, io) ==
    traverse_loaded(checks, db, file, load_page(checks, db, file, page_num), recs, io)

get_all_records(checks, db, file, root_page_num) ==
    traverse_btree(checks, db, file, root_page_num, <<>>, <<>>)

\* ------------------------------------------------------------------------
\* Database::traverse_index, lookup_rowids_by_country
\* ------------------------------------------------------------------------

\* the IndexLeaf arm: skip smaller keys, collect equal ones, stop at a larger
RECURSIVE leaf_matches(_, _, _, _)
leaf_matches(entries, k, target, rowids) ==
    IF k > Len(entries) THEN rowids
    ELSE LET c == StrCmp(entries[k].country, target)
         IN  CASE c = "Less"  -> leaf_matches(entries, k + 1, target, rowids)
               [] c = "Equal" -> leaf_matches(entries, k + 1, target,
                                              Append(rowids, entries[k].rowid))
               [] OTHER       -> rowids

RECURSIVE traverse_index(_, _, _, _, _, _, _)
RECURSIVE index_interior(_, _, _, _, _, _, _, _, _)
RECURSIVE index_equal(_, _, _, _, _, _, _, _)
RECURSIVE index_entries(_, _, _, _, _, _, _, _)
RECURSIVE index_loaded(_, _, _, _, _, _, _)

\* the Equal arm returning after its first traverse_index(child_page)?
index_equal_left_only(checks, db, file, page, entries, i, target, r) ==
    r

\* the Equal arm after its first traverse_index(child_page)?, which gave r:
\* the immediate right sibling, or the rightmost child after the last entry
index_equal(checks, db, file, page, entries, i, target, r) ==
    IF r.st # "ok" THEN r
    ELSE IF i + 1 < Len(entries)
    THEN traverse_index(checks, db, file, entries[i + 2].child_page, target,
                        r.rowids, r.io)
    ELSE IF page.right_most_child.some
    THEN traverse_index(checks, db, file, page.right_most_child.v, target,
                        r.rowids, r.io)
    ELSE r

\* the loop over the entries of an IndexInterior page, from entry i (0-based)
index_interior(checks, db, file, page, entries, i, target, rowids, io) ==
    IF i >= Len(entries)
    THEN \* target > all keys: the rightmost child
         IF page.right_most_child.some
         THEN traverse_index(checks, db, file, page.right_most_child.v, target, rowids, io)
         ELSE [st |-> "ok", err |-> "", rowids |-> rowids, io |-> io]
    ELSE
    LET c == StrCmp(target, entries[i + 1].country)
        child_page == entries[i + 1].child_page
    IN  CASE c = "Less" ->
               traverse_index(checks, db, file, child_page, target, rowids, io)
          [] c = "Equal" ->
               index_equal(checks, db, file, page, entries, i, target,
                           traverse_index(checks, db, file, child_page, target,
                                          rowids, io))
          [] OTHER ->
               index_interior(checks, db, file, page, entries, i + 1, target, rowids, io)

\* for (country, rowid) in page.index_leaf_entries() { ... }
index_leaf(es, target, rowids, io) ==
    IF es.st = "panic"
    THEN [st |-> "panic", err |-> "", rowids |-> rowids, io |-> io]
    ELSE [st |-> "ok", err |-> "", rowids |-> leaf_matches(es.items, 1, target, rowids),
          io |-> io]

\* let entries = page.index_interior_entries(); for ...
index_entries(checks, db, file, page, es, target, rowids, io) ==
    IF es.st = "panic"
    THEN [st |-> "panic", err |-> "", rowids |-> rowids, io |-> io]
    ELSE index_interior(checks, db, file, page, es.items, 0, target, rowids, io)

\* traverse_index after let page = self.load_page(db_path, page_num)
index_loaded(checks, db, file, lp, target, rowids, io) ==
    IF lp.st # "ok"
    THEN [st |-> lp.st, err |-> lp.err, rowids |-> rowids, io |-> io \o lp.io]
    ELSE CASE lp.page.typ = "IndexLeaf" ->
                index_leaf(index_leaf_entries(lp.page), target, rowids, io \o lp.io)
           [] lp.page.typ = "IndexInterior" ->
                index_entries(checks, db, file, lp.page, index_interior_entries(lp.page),
                              target, rowids, io \o lp.io)
           [] OTHER ->
                [st |-> "err", err |-> "UnexpectedPageType", rowids |-> rowids,
                 io |-> io \o lp.io]

traverse_index(checks, db, file, page_num, target, rowids, io) ==
    index_loaded(checks, db, file, load_page(checks, db, file, page_num), target,
                 rowids, io)

lookup_rowids_by_country(checks, db, file, index_root_page, target_country) ==
    traverse_index(checks, db, file, index_root_page, target_country, <<>>, <<>>)

\* ------------------------------------------------------------------------
\* Database::search_table_btree, fetch_record_by_rowid, fetch_records_by_rowids
\* ------------------------------------------------------------------------

\* rec.id == target_rowid for the record r decoded from cell k
RECURSIVE leaf_search(_, _, _)
RECURSIVE leaf_record(_, _, _, _)
leaf_record(page, k, target_rowid, r) ==
    IF r.st = "panic" THEN [st |-> "panic", found |-> FALSE, rec |-> NoRecord]
    ELSE IF r.rec.id = target_rowid
    THEN [st |-> "ok", found |-> TRUE, rec |-> r.rec]
    ELSE leaf_search(page, k + 1, target_rowid)

\* for rec in page.records() { if rec.id == target_rowid { return Some } }:
\* the iterator is lazy, a cell after the match is never decoded
leaf_search(page, k, target_rowid) ==
    IF k > Len(page.cell_pointers)
    THEN [st |-> "ok", found |-> FALSE, rec |-> NoRecord]
    ELSE leaf_record(page, k, target_rowid, get_record(page, page.cell_pointers[k]))

\* the descent with `target_rowid < key` in place of `target_rowid <= key`
RECURSIVE choose_child_below(_, _, _, _)
choose_child_below(page, entries, i, target_rowid) ==
    IF i > Len(entries) THEN page.right_most_child
    ELSE IF U64Less(target_rowid, entries[i].rowid_key)
    THEN SomeChild(entries[i].child_page)
    ELSE choose_child_below(page, entries, i + 1, target_rowid)

\* the descent that never looks at the keys
RECURSIVE choose_child_rightmost(_, _, _, _)
choose_child_rightmost(page, entries, i, target_rowid) ==
    page.right_most_child

\* the child the TableInterior arm descends into: the first entry with
\* target_rowid <= key, else the rightmost child
RECURSIVE choose_child(_, _, _, _)
choose_child(page, entries, i, target_rowid) ==
    IF i > Len(entries) THEN page.right_most_child
    ELSE IF U64Less(target_rowid, entries[i].rowid_key)
    THEN SomeChild(entries[i].child_page)
    ELSE IF target_rowid = entries[i].rowid_key
    THEN SomeChild(entries[i].child_page)
    ELSE choose_child(page, entries, i + 1, target_rowid)

RECURSIVE search_table_btree(_, _, _, _, _, _)
RECURSIVE search_descend(_, _, _, _, _, _)
RECURSIVE search_interior(_, _, _, _, _, _, _)
RECURSIVE search_loaded(_, _, _, _, _, _)

NotFound(io) == [st |-> "ok", err |-> "", found |-> FALSE, rec |-> NoRecord, io |-> io]

\* the TableLeaf arm: Ok(Some(rec)) or Ok(None)
search_leaf(r, io) == [NotFound(io) EXCEPT !.st = r.st, !.found = r.found, !.rec = r.rec]

\* return self.search_table_btree(child, target_rowid)
search_descend(checks, db, file, child, target_rowid, io) ==
    IF child.some
    THEN search_table_btree(checks, db, file, child.v, target_rowid, io)
    ELSE NotFound(io)

\* let entries = page.table_interior_entries(); for ...
search_interior(checks, db, file, page, es, target_rowid, io) ==
    IF es.st = "panic" THEN [NotFound(io) EXCEPT !.st = "panic"]
    ELSE search_descend(checks, db, file, choose_child(page, es.items, 1, target_rowid),
                        target_rowid, io)

\* search_table_btree after let page = self.load_page(db_path, page_num)
search_loaded(checks, db, file, lp, target_rowid, io) ==
    IF lp.st # "ok"
    THEN [NotFound(io \o lp.io) EXCEPT !.st = lp.st, !.err = lp.err]
    ELSE CASE lp.page.typ = "TableLeaf" ->
                search_leaf(leaf_search(lp.page, 1, target_rowid), io \o lp.io)
           [] lp.page.typ = "TableInterior" ->
                search_interior(checks, db, file, lp.page, table_interior_entries(lp.page),
                                target_rowid, io \o lp.io)
           [] OTHER ->
                [NotFound(io \o lp.io) EXCEPT !.st = "err", !.err = "UnexpectedPageType"]

search_table_btree(checks, db, file, page_num, target_rowid, io) ==
    search_loaded(checks, db, file, load_page(checks, db, file, page_num),
                  target_rowid, io)

fetch_record_by_rowid(checks, db, file, table_root_page, rowid) ==
    search_table_btree(checks, db, file, table_root_page, rowid, <<>>)

RECURSIVE fetch_loop(_, _, _, _, _, _, _, _)
RECURSIVE fetch_one(_, _, _, _, _, _, _, _, _)

\* the loop with the `?` dropped: a lookup that failed is passed over
fetch_one_skips_errors(checks, db, file, table_root_page, rowids, k, results, io, r) ==
    fetch_loop(checks, db, file, table_root_page, rowids, k + 1,
               IF r.st = "ok" /\ r.found THEN Append(results, r.rec) ELSE results,
               io \o r.io)

\* if let Some(rec) = self.fetch_record_by_rowid(..)? { results.push(rec) }:
\* r is what the search for rowids[k] returned
fetch_one(checks, db, file, table_root_page, rowids, k, results, io, r) ==
    IF r.st # "ok"
    THEN [st |-> r.st, err |-> r.err, records |-> <<>>, io |-> io \o r.io]
    ELSE fetch_loop(checks, db, file, table_root_page, rowids, k + 1,
                    IF r.found THEN Append(results, r.rec) ELSE results,
                    io \o r.io)

\* for &rid in rowids { ... }
fetch_loop(checks, db, file, table_root_page, rowids, k, results, io) ==
    IF k > Len(rowids)
    THEN [st |-> "ok", err |-> "", records |-> results, io |-> io]
    ELSE fetch_one(checks, db, file, table_root_page, rowids, k, results, io,
                   fetch_record_by_rowid(checks, db, file, table_root_page, rowids[k]))

fetch_records_by_rowids(checks, db, file, table_root_page, rowids) ==
    fetch_loop(checks, db, file, table_root_page, rowids, 1, <<>>, <<>>)

\* ------------------------------------------------------------------------
\* main.rs: the catalog lookups and the two SELECT commands
\* ------------------------------------------------------------------------

Max(a, b) == IF a > b THEN a ELSE b

\* str::to_lowercase on ASCII text
ToLower(str) == AsSeq([k \in 1..Len(str) |-> IF str[k] \in 65..90 THEN str[k] + 32 ELSE str[k]])

\* char::is_whitespace on ASCII
IsSpace(b) == b \in {9, 10, 11, 12, 13, 32}

\* str::find(ch): the 0-based place of the first ch, or -1
RECURSIVE FindByte(_, _, _)
FindByte(str, ch, k) ==
    IF k > Len(str) THEN -1 ELSE IF str[k] = ch THEN k - 1 ELSE FindByte(str, ch, k + 1)

\* str::split(ch)
RECURSIVE SplitOn(_, _)
SplitOn(str, ch) ==
    LET at == FindByte(str, ch, 1)
    IN  IF at < 0 THEN <<str>>
        ELSE <<SubSeq(str, 1, at)>> \o SplitOn(SubSeq(str, at + 2, Len(str)), ch)

\* def.trim().split_whitespace().next(): the first word, <<>> when none
RECURSIVE FirstWord(_, _, _)
FirstWord(str, k, word) ==
    IF k > Len(str) THEN word
    ELSE IF IsSpace(str[k])
    THEN IF Len(word) = 0 THEN FirstWord(str, k + 1, word) ELSE word
    ELSE FirstWord(str, k + 1, Append(word, str[k]))

\* column_definitions.iter().map(|def| first word).collect(); unwrap
\* panics on a definition without a word
first_words(names) ==
    IF \E k \in 1..Len(names) : Len(names[k]) = 0
    THEN [st |-> "panic", names |-> <<>>]
    ELSE [st |-> "ok", names |-> names]

column_names(defs) == first_words(AsSeq([k \in 1..Len(defs) |-> FirstWord(defs[k], 1, <<>>)]))

\* main.rs 166-179: the column names of a CREATE TABLE statement
schema_column_names(create_table_sql) ==
    IF FindByte(create_table_sql, 40, 1) < 0 THEN [st |-> "panic", names |-> <<>>]
    ELSE column_names(SplitOn(SubSeq(create_table_sql,
                                     FindByte(create_table_sql, 40, 1) + 2,
                                     Len(create_table_sql)), 44))

\* iter().position(|x| x == name): 0-based, -1 when absent
RECURSIVE Position(_, _, _)
Position(names, name, k) ==
    IF k > Len(names) THEN -1
    ELSE IF names[k] = name THEN k - 1 ELSE Position(names, name, k + 1)

RECURSIVE find_table_record(_, _, _)
RECURSIVE table_record_at(_, _, _, _)

\* the closure of find on the record r decoded from cell k
table_record_at(page, k, table_name, r) ==
    IF r.st = "panic" \/ Len(r.rec.values) < 2
    THEN [st |-> "panic", found |-> FALSE, rec |-> NoRecord]
    ELSE IF r.rec.values[2].t = "Text" /\ r.rec.values[2].s = table_name
    THEN [st |-> "ok", found |-> TRUE, rec |-> r.rec]
    ELSE find_table_record(page, k + 1, table_name)

\* db.root_page.records().find(|record| values[1] is Text(name), name == table_name)
find_table_record(page, k, table_name) ==
    IF k > Len(page.cell_pointers) THEN [st |-> "ok", found |-> FALSE, rec |-> NoRecord]
    ELSE table_record_at(page, k, table_name, get_record(page, page.cell_pointers[k]))

RECURSIVE find_index_record(_, _, _)
RECURSIVE index_record_at(_, _, _, _)

index_record_at(page, k, expected_index_name, r) ==
    IF r.st = "panic" \/ Len(r.rec.values) < 2
    THEN [st |-> "panic", found |-> FALSE, rec |-> NoRecord]
    ELSE IF /\ r.rec.values[1].t = "Text" /\ r.rec.values[2].t = "Text"
            /\ r.rec.values[1].s = StrIndex
            /\ ToLower(r.rec.values[2].s) = expected_index_name
    THEN [st |-> "ok", found |-> TRUE, rec |-> r.rec]
    ELSE find_index_record(page, k + 1, expected_index_name)

\* main.rs 247-254: the catalog row of type "index" whose lower-cased name
\* is expected_index_name
find_index_record(page, k, expected_index_name) ==
    IF k > Len(page.cell_pointers) THEN [st |-> "ok", found |-> FALSE, rec |-> NoRecord]
    ELSE index_record_at(page, k, expected_index_name,
                         get_record(page, page.cell_pointers[k]))

\* `*page_num as usize`: a number of 2^31 or more lies beyond every file of
\* the model and is kept as 2^31 - 1
AsPageNumber(v) == IF IsHuge(v) THEN 2147483647 ELSE ToNat(v)

NoCount(st, err, io) == [st |-> st, err |-> err, count |-> 0, io |-> io]

\* let count = table_page.records().count(); println!("{}", count)
count_records(rs, io) ==
    IF rs.st = "panic" THEN NoCount("panic", "", io)
    ELSE [st |-> "ok", err |-> "", count |-> Len(rs.items), io |-> io]

\* let table_page = db.load_page(db_path, root_page)?
count_page(lp) ==
    IF lp.st # "ok" THEN NoCount(lp.st, lp.err, lp.io)
    ELSE count_records(records(lp.page), lp.io)

\* main.rs 85-96: the catalog row found, its rootpage
count_table(checks, db, file, tr) ==
    IF tr.st = "panic" THEN NoCount("panic", "", <<>>)
    ELSE IF ~tr.found THEN NoCount("err", "TableNotFound", <<>>)
    ELSE IF Len(tr.rec.values) < 4 THEN NoCount("panic", "", <<>>)
    ELSE IF tr.rec.values[4].t # "Int" THEN NoCount("err", "InvalidRootPage", <<>>)
    ELSE count_page(load_page(checks, db, file, AsPageNumber(tr.rec.values[4].i)))

\* main.rs 77-100: select count(*) from <table_name>
main_count(checks, db, file, table_name) ==
    count_table(checks, db, file, find_table_record(db.root_page, 1, table_name))

\* main.rs 39-43
matches_where_condition(record, where_column_pos, expected_value) ==
    format_record_value(record.values[where_column_pos + 1]) = expected_value

\* main.rs 312-321: the value printed for requested column i of the record
row_value(record, column_positions, i, name) ==
    IF name = StrId /\ column_positions[i] = 0
    THEN DecDigits(record.id, <<>>)
    ELSE format_record_value(record.values[column_positions[i] + 1])

\* main.rs 291-325: the rows printed for all_records, from record k on.
\* The requested columns are "id, country", at column_positions.
RECURSIVE print_rows(_, _, _, _, _)
print_rows(all_records, k, column_positions, where, out) ==
    IF k > Len(all_records) THEN [st |-> "ok", err |-> "", out |-> out]
    ELSE IF Len(all_records[k].values) <= Max(column_positions[1], column_positions[2])
    THEN [st |-> "err", err |-> "NotEnoughColumns", out |-> out]
    ELSE IF where.has /\ Len(all_records[k].values) <= where.pos
    THEN [st |-> "panic", err |-> "", out |-> out]
    ELSE IF where.has /\ ~matches_where_condition(all_records[k], where.pos, where.value)
    THEN print_rows(all_records, k + 1, column_positions, where, out)
    ELSE print_rows(all_records, k + 1, column_positions, where,
                    Append(out, row_value(all_records[k], column_positions, 1, StrId)
                                \o <<124>>
                                \o row_value(all_records[k], column_positions, 2,
                                             StrCountry)))

\* what select_records returns: the records read; lookup and fetch say how
\* the two steps of the index path ended ("none": not taken); after holds
\* the file operations made after the first of them to fail
Selected(st, err, recs, io, lookup, fetch, after) ==
    [st |-> st, err |-> err, records |-> recs, io |-> io,
     lookup |-> lookup, fetch |-> fetch, after |-> after]

\* main.rs 264-271: if let Ok(recs) = db.fetch_records_by_rowids(..) { recs }
select_fetched(lk, ft) ==
    IF ft.st = "panic"
    THEN Selected("panic", "", <<>>, lk.io \o ft.io, "ok", "panic", <<>>)
    ELSE IF ft.st = "err"
    THEN Selected("scan", "", <<>>, lk.io \o ft.io, "ok", "err", <<>>)
    ELSE Selected("ok", "", ft.records, lk.io \o ft.io, "ok", "ok", <<>>)

\* main.rs 261-274: if let Ok(rowids) = db.lookup_rowids_by_country(..) { .. }
select_looked_up(checks, db, file, rootpage, lk) ==
    IF lk.st = "panic" THEN Selected("panic", "", <<>>, lk.io, "panic", "none", <<>>)
    ELSE IF lk.st = "err" THEN Selected("scan", "", <<>>, lk.io, "err", "none", <<>>)
    ELSE select_fetched(lk, fetch_records_by_rowids(checks, db, file, rootpage,
                                                    lk.rowids))

\* main.rs 256-260: index_root of the index row; 0 when it is not an Int
index_root_of(rec) ==
    IF rec.values[4].t = "Int" THEN AsPageNumber(rec.values[4].i) ELSE 0

ScanAll == Selected("scan", "", <<>>, <<>>, "none", "none", <<>>)

\* main.rs 255-281: if let Some(index_record) = index_record_opt { .. }
select_indexed(checks, db, file, rootpage, where, ir) ==
    IF ir.st = "panic" THEN Selected("panic", "", <<>>, <<>>, "none", "none", <<>>)
    ELSE IF ~ir.found THEN ScanAll
    ELSE IF Len(ir.rec.values) < 4
    THEN Selected("panic", "", <<>>, <<>>, "none", "none", <<>>)
    ELSE IF index_root_of(ir.rec) = 0 THEN ScanAll
    ELSE select_looked_up(checks, db, file, rootpage,
                          lookup_rowids_by_country(checks, db, file,
                                                   index_root_of(ir.rec), where.value))

\* main.rs 242-286 up to the else branches: the records of the index path,
\* or st = "scan" where the code goes on to db.get_all_records
select_by_index(checks, db, file, table_name, rootpage, where) ==
    IF ~(where.has /\ ToLower(where.column) = StrCountry) THEN ScanAll
    ELSE select_indexed(checks, db, file, rootpage, where,
                        find_index_record(db.root_page, 1,
                                          <<105, 100, 120, 95>> \o table_name
                                          \o <<95, 99, 111, 117, 110, 116, 114, 121>>))

\* db.get_all_records(db_path, rootpage)? of an else branch, after the file
\* operations ix.io of the index path
full_scan(ix, scan) ==
    Selected(scan.st, scan.err, scan.records, ix.io \o scan.io, ix.lookup, ix.fetch,
             IF ix.lookup = "none" THEN <<>> ELSE scan.io)

\* every else branch of main.rs 264-286 is the same full scan
select_or_scan(checks, db, file, rootpage, ix) ==
    IF ix.st = "scan"
    THEN full_scan(ix, get_all_records(checks, db, file, rootpage))
    ELSE ix

\* main.rs 242-289: the records the query reads
select_records(checks, db, file, table_name, rootpage, where) ==
    select_or_scan(checks, db, file, rootpage,
                   select_by_index(checks, db, file, table_name, rootpage, where))

Printed(st, err, out, sr) ==
    [st |-> st, err |-> err, out |-> out, io |-> sr.io,
     lookup |-> sr.lookup, fetch |-> sr.fetch, after |-> sr.after]

NothingRead == Selected("ok", "", <<>>, <<>>, "none", "none", <<>>)

\* main.rs 291-325: for record in all_records { .. }
select_rows(sr, pr) == Printed(pr.st, pr.err, pr.out, sr)

\* main.rs 242-325 with the columns placed
select_output(sr, column_positions, where) ==
    IF sr.st # "ok" THEN Printed(sr.st, sr.err, <<>>, sr)
    ELSE select_rows(sr, print_rows(sr.records, 1, column_positions, where, <<>>))

\* main.rs 181-289: the WHERE column and the requested columns are placed
\* among the schema's, then the records are read
select_columns(checks, db, file, table_name, rootpage, names, where) ==
    IF where.has /\ Position(names, where.column, 1) < 0
    THEN Printed("err", "WhereColumnNotFound", <<>>, NothingRead)
    ELSE IF Position(names, StrId, 1) < 0 \/ Position(names, StrCountry, 1) < 0
    THEN Printed("err", "ColumnNotFound", <<>>, NothingRead)
    ELSE select_output(select_records(checks, db, file, table_name, rootpage, where),
                       <<Position(names, StrId, 1), Position(names, StrCountry, 1)>>,
                       [has |-> where.has, pos |-> Position(names, where.column, 1),
                        value |-> where.value])

\* main.rs 166-179 done: sc holds the schema's column names
select_schema(checks, db, file, table_name, rootpage, sc, where) ==
    IF sc.st = "panic" THEN Printed("panic", "", <<>>, NothingRead)
    ELSE select_columns(checks, db, file, table_name, rootpage, sc.names, where)

\* main.rs 148-162: the catalog row found, its sql and its rootpage
select_table(checks, db, file, table_name, tr, where) ==
    IF tr.st = "panic" THEN Printed("panic", "", <<>>, NothingRead)
    ELSE IF ~tr.found THEN Printed("err", "TableNotFound", <<>>, NothingRead)
    ELSE IF Len(tr.rec.values) < 5 THEN Printed("panic", "", <<>>, NothingRead)
    ELSE IF tr.rec.values[5].t # "Text"
    THEN Printed("err", "InvalidCreateTable", <<>>, NothingRead)
    ELSE IF tr.rec.values[4].t # "Int"
    THEN Printed("err", "InvalidRootPage", <<>>, NothingRead)
    ELSE select_schema(checks, db, file, table_name, AsPageNumber(tr.rec.values[4].i),
                       schema_column_names(tr.rec.values[5].s), where)

\* main.rs 101-326: SELECT id, country FROM <table_name> [WHERE column = value]
main_select(checks, db, file, table_name, where) ==
    select_table(checks, db, file, table_name,
                 find_table_record(db.root_page, 1, table_name), where)

\* ------------------------------------------------------------------------
\* The reader at work: a file is opened, then operations are called on it
\* ------------------------------------------------------------------------

\* rows 1..n with their countries
RowsOf(cs) == AsSeq([k \in 1..Len(cs) |-> [rowid |-> RowidOf(k), country |-> cs[k]]])

RowChoices == UNION {[1..n -> Countries] : n \in 0..MaxRows}

\* leaves of c rows; three levels only where there are four leaves or more
TableShapes(n) ==
    {[c |-> c, deep |-> FALSE] : c \in 1..Max(n, 1)}
    \cup {[c |-> c, deep |-> TRUE] : c \in {c \in 1..n : (n + c - 1) \div c >= 4}}

\* where the index lies and how many pages the file lost at its end
Placements ==
    {[index_first |-> FALSE, missing |-> 0], [index_first |-> FALSE, missing |-> 1],
     [index_first |-> TRUE, missing |-> 1]}

Files ==
    {BuildFile(RowsOf(cs), sh.c, sh.deep, {}, FALSE, 0) :
        <<cs, sh>> \in {<<cs, sh>> \in RowChoices \X TableShapes(MaxRows) :
                          sh \in TableShapes(Len(cs))}}
    \cup {BuildFile(RowsOf(cs), 2, FALSE, seps, pl.index_first, pl.missing) :
            <<cs, seps, pl>> \in
                {<<cs, seps, pl>> \in RowChoices \X SepChoices(MaxRows) \X Placements :
                    /\ Len(cs) >= 1
                    /\ seps \in SepChoices(Len(cs))
                    /\ seps # {} \/ pl.missing = 1}}

\* the file as stored: what the catalog row of the table and of the index say
TableRoot(f) == f.pages[1].cells[1].values[4].n
IndexRoot(f) == f.pages[1].cells[2].values[4].n

TablePagesOf(f) ==
    {p \in 2..Len(f.pages) : f.pages[p].typ \in {"TableLeaf", "TableInterior"}}
IndexPagesOf(f) ==
    {p \in 2..Len(f.pages) : f.pages[p].typ \in {"IndexLeaf", "IndexInterior"}}

\* every page of the file is on disk
Whole(f) == f.present = Len(f.pages)

FetchRowids == {RowidOf(i) : i \in 1..MaxRows} \cup {5, 300}
FetchLists == {<<>>, <<2>>, <<2, 6>>, <<4, 2>>, <<6, 3, 2>>}
NoWhere == [has |-> FALSE, column |-> <<>>, value |-> <<>>]
Wheres == {NoWhere} \cup {[has |-> TRUE, column |-> StrCountry, value |-> v] : v \in Targets}

Init ==
    /\ dbfile \in Files
    /\ debug \in BOOLEAN
    /\ database = NoDb
    /\ pc = "start"
    /\ call = [name |-> "none"]
    /\ ret = [st |-> "none"]
    /\ vdata = <<>> /\ voffset = 0 /\ vpc = "off"
    /\ vwant = [has |-> FALSE, v |-> U64Zero]
    /\ vres = [st |-> "none", value |-> U64Zero, offset |-> 0]

VarintIdle == UNCHANGED <<vdata, voffset, vwant, vres, vpc>>

\* main.rs 57: Database::load(db_path)?
Load ==
    /\ pc = "start"
    /\ LET r == load(debug, dbfile)
       IN  /\ database' = r.db
           /\ pc' = IF r.st = "ok" THEN "open" ELSE "failed"
           /\ call' = [name |-> "load"]
           /\ ret' = [st |-> r.st, err |-> r.err, io |-> r.io]
    /\ UNCHANGED <<dbfile, debug>> /\ VarintIdle

\* one operation is called on the open database, and the process ends
Call(o, r) ==
    /\ pc = "open"
    /\ pc' = "done"
    /\ call' = o
    /\ ret' = r
    /\ UNCHANGED <<dbfile, debug, database>> /\ VarintIdle

LoadPage ==
    \E n \in 0..(Len(dbfile.pages) + 1) :
        Call([name |-> "load_page", n |-> n], load_page(debug, database, dbfile, n))

GetAllRecords ==
    \E root \in TablePagesOf(dbfile) :
        Call([name |-> "get_all_records", root |-> root],
             get_all_records(debug, database, dbfile, root))

LookupRowids ==
    \E root \in {IndexRoot(dbfile), 0} :
      \E target \in IF root = 0 THEN Countries ELSE Targets :
        Call([name |-> "lookup", root |-> root, target |-> target],
             lookup_rowids_by_country(debug, database, dbfile, root, target))

FetchRecord ==
    \E root \in {TableRoot(dbfile), 0} :
      \E rowid \in IF root = 0 THEN {RowidOf(1)} ELSE FetchRowids :
        Call([name |-> "fetch", root |-> root, rowid |-> U64FromNat(rowid)],
             fetch_record_by_rowid(debug, database, dbfile, root, U64FromNat(rowid)))

FetchRecords ==
    \E list \in FetchLists :
        LET rowids == AsSeq([k \in 1..Len(list) |-> U64FromNat(list[k])])
        IN  Call([name |-> "fetch_all", root |-> TableRoot(dbfile), rowids |-> rowids],
                 fetch_records_by_rowids(debug, database, dbfile, TableRoot(dbfile),
                                         rowids))

Count ==
    \E table \in {StrT, StrId} :
        Call([name |-> "count", table |-> table],
             main_count(debug, database, dbfile, table))

Select ==
    \E where \in Wheres :
        Call([name |-> "select", table |-> StrT, where |-> where],
             main_select(debug, database, dbfile, StrT, where))

Next ==
    \/ Load
    \/ LoadPage
    \/ GetAllRecords
    \/ LookupRowids
    \/ FetchRecord
    \/ FetchRecords
    \/ Count
    \/ Select

Spec == Init /\ [][Next]_vars

\* ------------------------------------------------------------------------
\* What the file stores, read off its pages without the decoder
\* ------------------------------------------------------------------------

Decoded(v) ==
    CASE v.t = "Null" -> NullV
      [] v.t = "Int"  -> IntV(U64FromNat(v.n))
      [] OTHER        -> TextV(v.s)

StoredRecord(cell) ==
    [id |-> U64FromNat(cell.rowid),
     values |-> AsSeq([k \in 1..Len(cell.values) |-> Decoded(cell.values[k])])]

\* the records in the leaves of the table tree rooted at page p, left to right
RECURSIVE StoredUnder(_, _)
StoredUnder(f, p) ==
    LET pg == f.pages[p]
    IN  IF pg.typ = "TableLeaf"
        THEN AsSeq([k \in 1..Len(pg.cells) |-> StoredRecord(pg.cells[k])])
        ELSE Concat(AsSeq([k \in 1..Len(pg.cells) |-> StoredUnder(f, pg.cells[k].child)]))
             \o StoredUnder(f, pg.right)

\* the entries in the index tree rooted at page p: those of its leaves and
\* those of its interior pages
RECURSIVE IndexEntriesUnder(_, _)
IndexEntriesUnder(f, p) ==
    LET pg == f.pages[p]
        here == {[country |-> pg.cells[k].values[1].s,
                  rowid |-> U64FromNat(pg.cells[k].values[2].n)] : k \in 1..Len(pg.cells)}
    IN  IF pg.typ = "IndexLeaf" THEN here
        ELSE here \cup IndexEntriesUnder(f, pg.right)
             \cup UNION {IndexEntriesUnder(f, pg.cells[k].child) : k \in 1..Len(pg.cells)}

Range(seq) == {seq[k] : k \in 1..Len(seq)}

\* ------------------------------------------------------------------------
\* The navigation claims, over Spec
\* ------------------------------------------------------------------------

\* the rowids of records are strictly increasing
Increasing(recs) ==
    \A k \in 1..(Len(recs) - 1) : U64Less(recs[k].id, recs[k + 1].id)

\* C1: the full scan started at the root of a table tree returns exactly the
\* records stored in the tree's leaves, each once, in strictly increasing
\* rowid order
ScanReturnsStoredRecords ==
    (pc = "done" /\ call.name = "get_all_records" /\ Whole(dbfile)) =>
        /\ ret.st = "ok"
        /\ ret.records = StoredUnder(dbfile, call.root)
        /\ Increasing(ret.records)

\* a scan of a tree of three levels that returned all MaxRows rows
ScanOfDeepTree ==
    /\ pc = "done" /\ call.name = "get_all_records" /\ Whole(dbfile)
    /\ dbfile.pages[call.root].typ = "TableInterior"
    /\ dbfile.pages[dbfile.pages[call.root].right].typ = "TableInterior"
    /\ ret.st = "ok"
    /\ Len(ret.records) = MaxRows

\* the rowids the index tree at page p stores under the key k
RowidsStored(f, p, k) ==
    {e.rowid : e \in {e \in IndexEntriesUnder(f, p) : e.country = k}}

\* C2: lookup_rowids_by_country(root, k) returns all and only the rowids of
\* the entries of the index tree, in leaf cells and in interior cells, whose
\* key equals k
LookupFindsAllEqualKeys ==
    (pc = "done" /\ call.name = "lookup" /\ call.root # 0 /\ Whole(dbfile)) =>
        /\ ret.st = "ok"
        /\ Range(ret.rowids) = RowidsStored(dbfile, call.root, call.target)

\* what the lookup does do: it returns only rowids stored under k
LookupFindsOnlyEqualKeys ==
    (pc = "done" /\ call.name = "lookup" /\ call.root # 0 /\ Whole(dbfile)) =>
        /\ ret.st = "ok"
        /\ Range(ret.rowids) \subseteq RowidsStored(dbfile, call.root, call.target)

\* C3: for every rowid r the full scan of a table tree returns,
\* fetch_record_by_rowid finds the record of rowid r with the scanned values,
\* also when r is a separator key of an interior page
FetchFindsScannedRecord ==
    (pc = "done" /\ call.name = "fetch" /\ call.root # 0 /\ Whole(dbfile)) =>
        \A rec \in Range(get_all_records(debug, database, dbfile, call.root).records) :
            rec.id = call.rowid =>
                /\ ret.st = "ok"
                /\ ret.found
                /\ ret.rec = rec

\* a record found whose rowid is a separator key of the interior root
FetchOfSeparatorKey ==
    /\ pc = "done" /\ call.name = "fetch" /\ call.root # 0 /\ Whole(dbfile)
    /\ dbfile.pages[call.root].typ = "TableInterior"
    /\ \E k \in 1..Len(dbfile.pages[call.root].cells) :
            U64FromNat(dbfile.pages[call.root].cells[k].rowid) = call.rowid
    /\ ret.st = "ok"
    /\ ret.found
    /\ ret.rec.id = call.rowid

\* main.rs 282-325: the rows printed by db.get_all_records(db_path, rootpage)
\* followed by the WHERE filter on country (id is column 0, country column 1)
ScanRows(checks, db, file, value) ==
    print_rows(get_all_records(checks, db, file, TableRoot(file)).records, 1, <<0, 1>>,
               [has |-> TRUE, pos |-> 1, value |-> value], <<>>).out

\* C4: the rows a SELECT with WHERE country = v emits through the index
\* path are the rows of the full scan followed by the same filter, in the
\* same order
IndexPathMatchesFullScan ==
    (pc = "done" /\ call.name = "select" /\ call.where.has /\ Whole(dbfile)
        /\ ret.lookup = "ok" /\ ret.fetch = "ok") =>
        /\ ret.st = "ok"
        /\ ret.out = ScanRows(debug, database, dbfile, call.where.value)

\* C5: select count(*) prints the number of records the full scan of the
\* table yields, also when the root of the table is an interior page
CountIsNumberOfRows ==
    (pc = "done" /\ call.name = "count" /\ call.table = StrT /\ Whole(dbfile)) =>
        /\ ret.st = "ok"
        /\ ret.count = Len(StoredUnder(dbfile, TableRoot(dbfile)))

\* what the count does do: it is right where the root of the table is a leaf
CountOfLeafRoot ==
    (pc = "done" /\ call.name = "count" /\ call.table = StrT /\ Whole(dbfile)
        /\ dbfile.pages[TableRoot(dbfile)].typ = "TableLeaf") =>
        /\ ret.st = "ok"
        /\ ret.count = Len(StoredUnder(dbfile, TableRoot(dbfile)))

\* C6: an error of the index lookup or of the fetch by rowids aborts the
\* query: it ends in that error, no page is loaded after it and no row is
\* emitted
ErrorsAbortTheQuery ==
    (pc = "done" /\ call.name = "select" /\ (ret.lookup = "err" \/ ret.fetch = "err")) =>
        /\ ret.st = "err"
        /\ ret.after = <<>>
        /\ ret.out = <<>>

\* the InvalidPageNumber error, raised before any file operation
RejectedUnopened(r) == r.st = "err" /\ r.err = "InvalidPageNumber" /\ r.io = <<>>

\* C7: load_page(0) fails with InvalidPageNumber before the file is opened,
\* and the traversals started at page 0 return that error
LoadPageZeroRejected ==
    /\ (pc = "done" /\ call.name = "load_page" /\ call.n = 0) => RejectedUnopened(ret)
    /\ (pc = "done" /\ call.name \in {"lookup", "fetch"} /\ call.root = 0) =>
            RejectedUnopened(ret)

\* a lookup in the index at page 0 that ended in the error
LookupAtPageZero ==
    /\ pc = "done" /\ call.name = "lookup" /\ call.root = 0
    /\ ret.st = "err"
    /\ ret.err = "InvalidPageNumber"

\* the bytes load_page(n) is to read: [100, page_size) for page 1,
\* [(n-1)*page_size, n*page_size) for the others
RangeOfPage(n) ==
    IF n = 1 THEN [start |-> 100, len |-> PageSize - 100]
    ELSE [start |-> (n - 1) * PageSize, len |-> PageSize]

\* C8: load_page(n) reads the bytes of page n (past the file header for
\* page 1), the decoded page has the kind of page n, and the page the
\* database holds after load equals load_page(1)
LoadPageReadsItsBytes ==
    (pc = "done" /\ call.name = "load_page" /\ call.n \in 1..dbfile.present) =>
        /\ ret.st = "ok"
        /\ ret.io = PageIo(RangeOfPage(call.n).start, RangeOfPage(call.n).len)
        /\ ret.page = from_data(debug, PageSize,
                                FileRead(dbfile, RangeOfPage(call.n).start,
                                         RangeOfPage(call.n).len)).page
        /\ ret.page.typ = dbfile.pages[call.n].typ
        /\ (call.n = 1 => ret.page = database.root_page)

\* the last page of a file of four pages or more, loaded
LoadOfLastPage ==
    /\ pc = "done" /\ call.name = "load_page"
    /\ call.n = dbfile.present /\ call.n >= 4
    /\ ret.st = "ok"
    /\ ret.page.typ = dbfile.pages[call.n].typ

\* the pages an operation loaded, in order, read off its seeks
IsSeek(x) == x.op = "seek"
PagesLoaded(db, io) ==
    LET seeks == SelectSeq(io, IsSeek)
    IN  AsSeq([k \in 1..Len(seeks) |-> seeks[k].arg \div db.page_size + 1])

\* the pages from page p down to the leaf that can hold the rowid: at an
\* interior page the left child of the first cell with key >= target, the
\* rightmost child when there is none
RECURSIVE SearchPath(_, _, _)
SearchPath(f, p, target) ==
    LET pg == f.pages[p]
        at == {k \in 1..Len(pg.cells) : pg.cells[k].rowid >= target}
    IN  IF pg.typ = "TableLeaf" THEN <<p>>
        ELSE IF at = {} THEN <<p>> \o SearchPath(f, pg.right, target)
        ELSE <<p>> \o SearchPath(f, pg.cells[CHOOSE k \in at : \A j \in at : k <= j].child,
                                 target)

\* C15: at a TableInterior page the search descends into exactly one child,
\* the left child of the first cell with key >= target or the rightmost
\* child when every key is smaller: one page is loaded per level
SearchDescendsIntoOneChild ==
    (pc = "done" /\ call.name = "fetch" /\ call.root # 0 /\ Whole(dbfile)) =>
        /\ ret.st = "ok"
        /\ PagesLoaded(database, ret.io) = SearchPath(dbfile, call.root, ToNat(call.rowid))

\* a search through three levels that took a cell's left child at the root
SearchThroughThreeLevels ==
    /\ pc = "done" /\ call.name = "fetch" /\ call.root # 0 /\ Whole(dbfile)
    /\ dbfile.pages[call.root].typ = "TableInterior"
    /\ ret.st = "ok"
    /\ Len(PagesLoaded(database, ret.io)) = 3
    /\ PagesLoaded(database, ret.io)[2] # dbfile.pages[call.root].right

\* the pages the index walk loads from page p on: at an interior page the
\* first cell with separator >= key decides
RECURSIVE IndexPath(_, _, _)
IndexPath(f, p, key) ==
    LET pg == f.pages[p]
        n  == Len(pg.cells)
        at == {k \in 1..n : StrCmp(key, pg.cells[k].values[1].s) # "Greater"}
        k  == CHOOSE k \in at : \A j \in at : k <= j
    IN  IF pg.typ = "IndexLeaf" THEN <<p>>
        ELSE IF at = {} THEN <<p>> \o IndexPath(f, pg.right, key)
        ELSE IF key # pg.cells[k].values[1].s
        THEN <<p>> \o IndexPath(f, pg.cells[k].child, key)
        ELSE <<p>> \o IndexPath(f, pg.cells[k].child, key)
                 \o IndexPath(f, IF k < n THEN pg.cells[k + 1].child ELSE pg.right, key)

RECURSIVE StoredIn(_, _, _)
StoredIn(rowids, k, stored) ==
    IF k > Len(rowids) THEN <<>>
    ELSE LET rowid_is(rec) == rec.id = rowids[k]
         IN  SelectSeq(stored, rowid_is) \o StoredIn(rowids, k + 1, stored)

\* C19: fetch_records_by_rowids returns the records of the rowids of the list
\* that exist in the table, in the order of the list; an absent rowid adds
\* no record and no error; an error of one lookup fails the whole call and
\* no record is returned
FetchManyKeepsListOrder ==
    (pc = "done" /\ call.name = "fetch_all") =>
        IF \E k \in 1..Len(call.rowids) :
               fetch_record_by_rowid(debug, database, dbfile, call.root,
                                     call.rowids[k]).st # "ok"
        THEN ret.st # "ok" /\ ret.records = <<>>
        ELSE /\ ret.st = "ok"
             /\ ret.records = StoredIn(call.rowids, 1, StoredUnder(dbfile, call.root))

\* a list of three rowids in descending order, one of them absent: the two
\* records come back in the order of the list
FetchManyOfUnorderedList ==
    /\ pc = "done" /\ call.name = "fetch_all"
    /\ Len(call.rowids) = 3
    /\ ret.st = "ok"
    /\ Len(ret.records) = 2
    /\ U64Less(ret.records[2].id, ret.records[1].id)

\* a call that failed at the second lookup after the first found its record
FetchManyFailedInTheMiddle ==
    /\ pc = "done" /\ call.name = "fetch_all"
    /\ Len(call.rowids) = 2
    /\ fetch_record_by_rowid(debug, database, dbfile, call.root, call.rowids[1]).found
    /\ ret.st = "err"
    /\ ret.records = <<>>

\* ------------------------------------------------------------------------
\* The varint decoder, over SpecVarint
\* ------------------------------------------------------------------------

\* 2^k and 2^k - 1 as u64
Pow2(k) == AsSeq([i \in 1..8 |-> IF i = 8 - (k \div 8) THEN 2 ^ (k % 8) ELSE 0])
Pow2m1(k) ==
    AsSeq([i \in 1..8 |-> IF i > 8 - (k \div 8) THEN 255
                    ELSE IF i = 8 - (k \div 8) THEN 2 ^ (k % 8) - 1 ELSE 0])

\* the values decoded in SpecVarint: every power of two, the value below
\* each, and 2^k + 0x80 (a last byte with its top bit set)
VarintValues ==
    {Pow2(k) : k \in 0..63} \cup {Pow2m1(k) : k \in 0..64}
    \cup {[Pow2(k) EXCEPT ![8] = 128] : k \in 8..63}

MaxTail == 1
MaxCont == 3

RECURSIVE SeqsUpTo(_, _)
SeqsUpTo(S, n) ==
    IF n = 0 THEN {<<>>}
    ELSE LET shorter == SeqsUpTo(S, n - 1)
         IN  shorter \cup {Append(s, x) : s \in shorter, x \in S}

Prefixes == {<<>>, <<255>>, <<129, 1>>}
Tails == SeqsUpTo({0, 129}, MaxTail)
ContRuns == SeqsUpTo({128, 255}, MaxCont)

\* every byte from offset on has its continuation bit set
Unterminated(data, offset) ==
    offset <= Len(data) /\ \A i \in (offset + 1)..Len(data) : data[i] >= 128

InitVarint ==
    /\ dbfile = [pages |-> <<>>, present |-> 0]
    /\ debug = FALSE
    /\ database = NoDb
    /\ pc = "off"
    /\ call = [name |-> "none"]
    /\ ret = [st |-> "none"]
    /\ vpc = "ready"
    /\ vres = [st |-> "none", value |-> U64Zero, offset |-> 0]
    /\ \/ \E v \in VarintValues, pre \in Prefixes, tail \in Tails :
            /\ vdata = pre \o EncodeVarint(v) \o tail
            /\ voffset = Len(pre)
            /\ vwant = [has |-> TRUE, v |-> v]
       \/ \E pre \in Prefixes, run \in ContRuns :
            /\ vdata = pre \o run
            /\ voffset \in Len(pre)..(Len(pre) + Len(run) + 1)
            /\ vwant = [has |-> FALSE, v |-> U64Zero]

GetVarint ==
    /\ vpc = "ready"
    /\ vres' = get_varint(vdata, voffset)
    /\ vpc' = "done"
    /\ UNCHANGED <<vdata, voffset, vwant, dbfile, debug, database, pc, call, ret>>

NextVarint == GetVarint

SpecVarint == InitVarint /\ [][NextVarint]_vars

\* C9: decoding the standard encoding of v yields v and advances the offset
\* by the length of the encoding, for every u64 v (also the 9-byte ones)
VarintRoundTrip ==
    (vpc = "done" /\ vwant.has) =>
        /\ vres.st = "ok"
        /\ vres.value = vwant.v
        /\ vres.offset = voffset + Len(EncodeVarint(vwant.v))

\* what the decoder does do: the round trip holds below 2^56
VarintRoundTripLow ==
    (vpc = "done" /\ vwant.has /\ vwant.v[1] = 0) =>
        /\ vres.st = "ok"
        /\ vres.value = vwant.v
        /\ vres.offset = voffset + Len(EncodeVarint(vwant.v))

\* C10: a buffer that ends before a terminating byte makes the decoder fail;
\* it returns no value and leaves the offset inside the buffer
VarintTruncatedFails ==
    (vpc = "done" /\ ~vwant.has /\ Unterminated(vdata, voffset)) =>
        /\ vres.st = "err"
        /\ vres.offset <= Len(vdata)

\* ------------------------------------------------------------------------
\* The decoders on their own: a record or a page is handed to its decoder
\* ------------------------------------------------------------------------

\* the body of an Int of serial type 1..6: a first byte, then one filler byte
\* repeated
IntBodies(serial) ==
    {<<b>> \o AsSeq([k \in 1..(IntWidth(serial) - 1) |-> r]) :
        b \in {0, 1, 127, 128, 255}, r \in {0, 255}}

\* how many NULL columns precede the last column of a row: with 126 of them
\* and more the header size takes a varint of two bytes
NullRuns == {0, 1, 2, 3, 124, 125, 126, 127}

\* a record of one Int column, given by its serial type and its bytes
IntRecord(serial, body) ==
    [name |-> "parse_record_values", kind |-> "int", serial |-> serial, body |-> body,
     values |-> <<>>, data |-> <<2, serial>> \o body, page_size |-> 0]

\* a row of n NULL columns and a last column, as the standard writer stores
\* it: [header_size] [n serial types 0] [serial type] [value]
RowRecord(n, last) ==
    [name |-> "parse_record_values", kind |-> "row", serial |-> 0, body |-> <<>>,
     values |-> AsSeq([k \in 1..n |-> ANull]) \o <<last>>,
     data |-> RecordOf(Zeros(n) \o VarintNat(SerialType(last)), ValueBytes(last)),
     page_size |-> 0]

RecordInputs ==
    {IntRecord(serial, body) :
        <<serial, body>> \in {<<serial, body>> \in
            (1..6) \X UNION {IntBodies(x) : x \in 1..6} : body \in IntBodies(serial)}}
    \cup {RowRecord(n, last) : n \in NullRuns, last \in {AInt(7), AText(<<97>>)}}

\* the pages handed to the decoder: a page of each kind with its cells, and
\* the schema page, which follows the file header
SamplePages ==
    {[pg |-> TableLeafPage(RowsOf(<<<<97>>, <<97, 98>>>>)), before |-> 0],
     [pg |-> TableInteriorPage(<<[page |-> 3, key |-> 2], [page |-> 4, key |-> 4],
                                 [page |-> 5, key |-> 6]>>), before |-> 0],
     [pg |-> IndexLeafPage(IndexOrder(RowsOf(<<<<97>>, <<97, 98>>>>))), before |-> 0],
     [pg |-> IndexPages(IndexOrder(RowsOf(<<<<97>>, <<97>>, <<97>>>>)), {2}, 5)[1],
      before |-> 0],
     [pg |-> CatalogPage(2, 3), before |-> DB_HEADER_SIZE]}

\* the kind bytes tried, the four of the format among them
KindBytes == {0, 1, 2, 3, 5, 10, 13, 14, 255}

\* where the cell pointers start in a page of this kind byte
PointersAt(kind) == IF kind \in {2, 5} THEN 12 ELSE 8

\* the offset in the full page at which the decoded page's data begins
PayloadStart(page_size, data) ==
    page_size - Len(data) + PointersAt(data[1]) + 2 * (data[4] * 256 + data[5])

\* the i-th cell pointer as the page stores it
RawPointer(data, i) ==
    data[PointersAt(data[1]) + 2 * i - 1] * 256 + data[PointersAt(data[1]) + 2 * i]

\* the values a cell pointer is overwritten with: below the payload, at its
\* first and last byte, past the page
PointerValues(page_size, data) ==
    {0, PayloadStart(page_size, data) - 1, PayloadStart(page_size, data),
     page_size - 1, page_size, 65535}

\* data with its i-th cell pointer set to w
WithPointer(data, i, w) ==
    [data EXCEPT ![PointersAt(data[1]) + 2 * i - 1] = w \div 256,
                 ![PointersAt(data[1]) + 2 * i] = w % 256]

\* a page for from_data; edit says what was overwritten in it
PageInput(page_size, data, edit) ==
    [name |-> "from_data", kind |-> edit, serial |-> 0, body |-> <<>>,
     values |-> <<>>, data |-> data, page_size |-> page_size]

\* the pages as written, with the kind byte overwritten, and with one cell
\* pointer overwritten
PagesOf(sample) ==
    LET data == EncodePage(sample.pg, PageSize, sample.before)
    IN  {PageInput(PageSize, data, "none")}
        \cup {PageInput(PageSize, [data EXCEPT ![1] = k], "kind") : k \in KindBytes}
        \cup {PageInput(PageSize, WithPointer(data, i, w), "pointer") :
                i \in 1..Len(sample.pg.cells), w \in PointerValues(PageSize, data)}

PageInputs == UNION {PagesOf(sample) : sample \in SamplePages}

\* Page::from_data(self.page_size, page_data)
DecodePage ==
    /\ pc = "ready"
    /\ call.name = "from_data"
    /\ ret' = from_data(debug, call.page_size, call.data)
    /\ pc' = "done"
    /\ UNCHANGED <<dbfile, debug, database, call>> /\ VarintIdle

\* Page::parse_record_values(&self.data[offset..])
ParseRecord ==
    /\ pc = "ready"
    /\ call.name = "parse_record_values"
    /\ ret' = parse_record_values(call.data)
    /\ pc' = "done"
    /\ UNCHANGED <<dbfile, debug, database, call>> /\ VarintIdle

\* ------------------------------------------------------------------------
\* The decoder claims, over SpecDecode
\* ------------------------------------------------------------------------

\* the n big-endian bytes as i64: (raw << (64-8n)) >> (64-8n)
SignExtend(bytes) ==
    AsSeq([i \in 1..8 |->
        IF i <= 8 - Len(bytes) THEN (IF bytes[1] >= 128 THEN 255 ELSE 0)
        ELSE bytes[i - (8 - Len(bytes))]])

\* C11: an Int stored with serial type 1..6 decodes to the sign extension of
\* its n big-endian bytes; with the top bit set it is negative
IntIsSignExtended ==
    (pc = "done" /\ call.name = "parse_record_values" /\ call.kind = "int") =>
        /\ ret.st = "ok"
        /\ ret.values = <<IntV(SignExtend(call.body))>>

\* what the decoder does do: the Int is right for the bytes whose top bit is
\* clear, and for all those of 8 bytes
IntIsZeroExtended ==
    (pc = "done" /\ call.name = "parse_record_values" /\ call.kind = "int"
        /\ (call.body[1] < 128 \/ Len(call.body) = 8)) =>
        /\ ret.st = "ok"
        /\ ret.values = <<IntV(SignExtend(call.body))>>

\* C17: the serial types take header_size - len(header_size varint) bytes
\* and the values begin at byte header_size, also for a header_size of 128
\* and more: the row decodes to the values stored
HeaderAreaIsExact ==
    (pc = "done" /\ call.name = "parse_record_values" /\ call.kind = "row") =>
        /\ ret.st = "ok"
        /\ ret.values = AsSeq([k \in 1..Len(call.values) |-> Decoded(call.values[k])])

\* what the decoder does do: the row is right while header_size is below 128
HeaderAreaOfOneByteSize ==
    (pc = "done" /\ call.name = "parse_record_values" /\ call.kind = "row"
        /\ call.data[1] < 128) =>
        /\ ret.st = "ok"
        /\ ret.values = AsSeq([k \in 1..Len(call.values) |-> Decoded(call.values[k])])

\* the kind a kind byte of the format stands for
KindOfByte(b) ==
    CASE b = 2 -> "IndexInterior" [] b = 5 -> "TableInterior"
      [] b = 10 -> "IndexLeaf" [] OTHER -> "TableLeaf"

\* C12: a page whose kind byte is none of 0x02, 0x05, 0x0A, 0x0D fails to
\* decode with an error (BadPageKind); the four bytes decode to
\* IndexInterior, TableInterior, IndexLeaf, TableLeaf
BadPageKindIsAnError ==
    (pc = "done" /\ call.name = "from_data" /\ call.kind \in {"none", "kind"}) =>
        IF call.data[1] \in {2, 5, 10, 13}
        THEN (ret.st = "ok" => ret.page.typ = KindOfByte(call.data[1]))
        ELSE ret.st = "err"

\* what the decoder does do: the four kind bytes decode to their kinds
PageKindDecoded ==
    (pc = "done" /\ call.name = "from_data" /\ call.kind \in {"none", "kind"}
        /\ call.data[1] \in {2, 5, 10, 13} /\ ret.st = "ok") =>
        ret.page.typ = KindOfByte(call.data[1])

\* C14: every cell offset of a decoded page lies in 0..len(payload)-1, and
\* a raw cell pointer below the start of the payload is a decode error
CellOffsetsInPayload ==
    (pc = "done" /\ call.name = "from_data" /\ call.kind \in {"none", "pointer"}) =>
        /\ (ret.st = "ok" =>
                \A i \in 1..Len(ret.page.cell_pointers) :
                    /\ 0 <= ret.page.cell_pointers[i]
                    /\ ret.page.cell_pointers[i] <= Len(ret.page.data) - 1)
        /\ (\E i \in 1..(call.data[4] * 256 + call.data[5]) :
                RawPointer(call.data, i) < PayloadStart(call.page_size, call.data)) =>
                ret.st = "err"

\* what the decoder does do: the pages as written decode to offsets inside
\* the payload
CellOffsetsOfWrittenPages ==
    (pc = "done" /\ call.name = "from_data" /\ call.kind = "none") =>
        /\ ret.st = "ok"
        /\ \A i \in 1..Len(ret.page.cell_pointers) :
                /\ 0 <= ret.page.cell_pointers[i]
                /\ ret.page.cell_pointers[i] <= Len(ret.page.data) - 1

InitDecode ==
    /\ dbfile = [pages |-> <<>>, present |-> 0]
    /\ debug \in BOOLEAN
    /\ database = NoDb
    /\ pc = "ready"
    /\ call \in RecordInputs \cup PageInputs
    /\ ret = [st |-> "none"]
    /\ vdata = <<>> /\ voffset = 0 /\ vpc = "off"
    /\ vwant = [has |-> FALSE, v |-> U64Zero]
    /\ vres = [st |-> "none", value |-> U64Zero, offset |-> 0]

NextDecode ==
    \/ ParseRecord
    \/ DecodePage

SpecDecode == InitDecode /\ [][NextDecode]_vars

\* ------------------------------------------------------------------------
\* Files with a child pointer to a page of the other tree
\* ------------------------------------------------------------------------

\* the rows of the files whose links are redirected
LinkRows == 3

\* the child pointers of page p: its cells' left children, and 0 for the
\* rightmost child
LinkSlots(f, p) == 0..Len(f.pages[p].cells)

\* f with the pointer at slot k of page p set to page q
Relinked(f, p, k, q) ==
    IF k = 0 THEN [f EXCEPT !.pages[p].right = q]
    ELSE [f EXCEPT !.pages[p].cells[k].child = q]

\* a pointer of the table root set to an index page, or a pointer of the
\* index root set to a table page
WrongLinks(f) ==
    {Relinked(f, TableRoot(f), k, q) :
        k \in LinkSlots(f, TableRoot(f)), q \in IndexPagesOf(f)}
    \cup {Relinked(f, IndexRoot(f), k, q) :
            k \in LinkSlots(f, IndexRoot(f)), q \in TablePagesOf(f)}

CorruptFiles ==
    UNION {WrongLinks(BuildFile(RowsOf(cs), 2, FALSE, seps, FALSE, 0)) :
            <<cs, seps>> \in {<<cs, seps>> \in [1..LinkRows -> Countries] \X SepChoices(LinkRows) :
                                seps # {}}}

InitCorrupt ==
    /\ dbfile \in CorruptFiles
    /\ debug \in BOOLEAN
    /\ database = NoDb
    /\ pc = "start"
    /\ call = [name |-> "none"]
    /\ ret = [st |-> "none"]
    /\ vdata = <<>> /\ voffset = 0 /\ vpc = "off"
    /\ vwant = [has |-> FALSE, v |-> U64Zero]
    /\ vres = [st |-> "none", value |-> U64Zero, offset |-> 0]

\* the three walks, from the roots the catalog names
ScanTable ==
    Call([name |-> "get_all_records", root |-> TableRoot(dbfile)],
         get_all_records(debug, database, dbfile, TableRoot(dbfile)))

NextCorrupt ==
    \/ Load
    \/ ScanTable
    \/ LookupRowids
    \/ FetchRecord

SpecCorrupt == InitCorrupt /\ [][NextCorrupt]_vars

\* the walk loaded a page of the other tree
WrongKindLoaded ==
    \E k \in 1..Len(PagesLoaded(database, ret.io)) :
        LET p == PagesLoaded(database, ret.io)[k]
        IN  IF call.name = "lookup" THEN p \in TablePagesOf(dbfile)
            ELSE p \in IndexPagesOf(dbfile)

\* C18: a walk that follows a child pointer to a page of a kind impossible
\* at that position fails with an error, in the full scan, in the search by
\* rowid and in the index lookup; nothing of the wrong page is returned
WrongKindLinkIsAnError ==
    (pc = "done" /\ call.name \in {"get_all_records", "fetch", "lookup"}
        /\ call.root # 0 /\ WrongKindLoaded) =>
        ret.st = "err"

\* what the walks do do: the two searches fail at a page of the other tree
SearchRejectsWrongKind ==
    (pc = "done" /\ call.name \in {"fetch", "lookup"} /\ call.root # 0
        /\ WrongKindLoaded) =>
        /\ ret.st = "err"
        /\ ret.err = "UnexpectedPageType"

\* ------------------------------------------------------------------------
\* The walks one page at a time, on files whose child pointers form a cycle
\* ------------------------------------------------------------------------

\* the calls of a walk the thread's stack has room for, one inside the other
MaxDepth == 4

\* a call of the walk not yet made: the page it is for and how deep it nests
WalkFrame(p, d) == [page |-> p, depth |-> d]

\* the calls for the children, the first to be made on top
PushAll(children, d, rest) ==
    AsSeq([k \in 1..Len(children) |-> WalkFrame(children[k], d)]) \o rest

\* if child_page_num == 0 { continue }
IsPageNumber(n) == n # 0

Walking(stack, out) ==
    [st |-> IF stack = <<>> THEN "ok" ELSE "walking", err |-> "", stack |-> stack, out |-> out]
WalkEnd(st, err, out) == [st |-> st, err |-> err, stack |-> <<>>, out |-> out]

\* one call of traverse_btree, lp the page it loaded
scan_records(rs, rest, out) ==
    IF rs.st = "panic" THEN WalkEnd("panic", "", out)
    ELSE Walking(rest, out \o rs.items)
scan_children(cp, d, rest, out) ==
    IF cp.st = "panic" THEN WalkEnd("panic", "", out)
    ELSE Walking(PushAll(SelectSeq(cp.items, IsPageNumber), d + 1, rest), out)
scan_turn(lp, d, rest, out) ==
    IF lp.st # "ok" THEN WalkEnd(lp.st, lp.err, out)
    ELSE IF is_leaf(lp.page) THEN scan_records(records(lp.page), rest, out)
    ELSE scan_children(get_child_pages(lp.page), d, rest, out)

\* one call of search_table_btree
search_found(r) ==
    WalkEnd(r.st, "", IF r.st = "ok" /\ r.found THEN <<r.rec>> ELSE <<>>)
search_child(child, d) ==
    IF child.some THEN Walking(<<WalkFrame(child.v, d + 1)>>, <<>>)
    ELSE WalkEnd("ok", "", <<>>)
search_entries(page, es, d, target_rowid) ==
    IF es.st = "panic" THEN WalkEnd("panic", "", <<>>)
    ELSE search_child(choose_child(page, es.items, 1, target_rowid), d)
search_turn(lp, d, target_rowid) ==
    IF lp.st # "ok" THEN WalkEnd(lp.st, lp.err, <<>>)
    ELSE CASE lp.page.typ = "TableLeaf" ->
                search_found(leaf_search(lp.page, 1, target_rowid))
           [] lp.page.typ = "TableInterior" ->
                search_entries(lp.page, table_interior_entries(lp.page), d, target_rowid)
           [] OTHER -> WalkEnd("err", "UnexpectedPageType", <<>>)

\* the children the IndexInterior arm of traverse_index descends into, in
\* order, from entry i (0-based) on
RECURSIVE index_children(_, _, _, _)
index_children(page, entries, i, target) ==
    IF i >= Len(entries)
    THEN IF page.right_most_child.some THEN <<page.right_most_child.v>> ELSE <<>>
    ELSE
    LET c == StrCmp(target, entries[i + 1].country)
    IN  CASE c = "Less" -> <<entries[i + 1].child_page>>
          [] c = "Equal" ->
               <<entries[i + 1].child_page>>
               \o (IF i + 1 < Len(entries) THEN <<entries[i + 2].child_page>>
                   ELSE IF page.right_most_child.some THEN <<page.right_most_child.v>>
                   ELSE <<>>)
          [] OTHER -> index_children(page, entries, i + 1, target)

\* one call of traverse_index
lookup_leaf(es, target, rest, out) ==
    IF es.st = "panic" THEN WalkEnd("panic", "", out)
    ELSE Walking(rest, leaf_matches(es.items, 1, target, out))
lookup_entries(page, es, d, target, rest, out) ==
    IF es.st = "panic" THEN WalkEnd("panic", "", out)
    ELSE Walking(PushAll(index_children(page, es.items, 0, target), d + 1, rest), out)
lookup_turn(lp, d, target, rest, out) ==
    IF lp.st # "ok" THEN WalkEnd(lp.st, lp.err, out)
    ELSE CASE lp.page.typ = "IndexLeaf" ->
                lookup_leaf(index_leaf_entries(lp.page), target, rest, out)
           [] lp.page.typ = "IndexInterior" ->
                lookup_entries(lp.page, index_interior_entries(lp.page), d, target, rest, out)
           [] OTHER -> WalkEnd("err", "UnexpectedPageType", out)

\* the files walked: a tree of two levels and one of three, as written and
\* with one child pointer of an interior page set to the page itself or to
\* the root above it
WalkBaseFiles ==
    {BuildFile(RowsOf(cs), 2, FALSE, {2}, FALSE, 0) : cs \in [1..LinkRows -> Countries]}
    \cup {BuildFile(RowsOf([k \in 1..MaxRows |-> <<97>>]), 1, TRUE, {}, FALSE, 0)}

InteriorPagesOf(f) ==
    {p \in 2..Len(f.pages) : f.pages[p].typ \in {"TableInterior", "IndexInterior"}}

RootAbove(f, p) == IF p \in TablePagesOf(f) THEN TableRoot(f) ELSE IndexRoot(f)

CyclicFiles ==
    UNION {{Relinked(f, p, k, q) : k \in LinkSlots(f, p), q \in {p, RootAbove(f, p)}} :
            <<f, p>> \in {<<f, p>> \in WalkBaseFiles \X (2..(2 * MaxRows + 4)) :
                            p \in InteriorPagesOf(f)}}

WalkFiles == WalkBaseFiles \cup CyclicFiles

\* The file does not change while an operation runs, so what a call of the
\* walk does at page p is settled when the operation starts: the call at
\* each page of the file, at depth 0 with nothing pending.
ScanCalls(checks, db, f) ==
    AsSeq([p \in 1..Len(f.pages) |->
             scan_turn(load_page(checks, db, f, p), 0, <<>>, <<>>)])

SearchCalls(checks, db, f, target_rowid) ==
    AsSeq([p \in 1..Len(f.pages) |->
             search_turn(load_page(checks, db, f, p), 0, target_rowid)])

LookupCalls(checks, db, f, target) ==
    AsSeq([p \in 1..Len(f.pages) |->
             lookup_turn(load_page(checks, db, f, p), 0, target, <<>>, <<>>)])

\* the call at page p: one of calls, or the call at a page number that is
\* none of the file, where load_page fails (page 0 is refused, the read of
\* a page past the end of the file fails)
CallAt(calls, p) ==
    IF p \in 1..Len(calls) THEN calls[p]
    ELSE WalkEnd("err", IF p = 0 THEN "InvalidPageNumber" ELSE "Io", <<>>)

\* the call v made at depth d, with the calls rest pending and out collected
Resume(v, d, rest, out) ==
    IF v.st \notin {"ok", "walking"} THEN WalkEnd(v.st, v.err, out)
    ELSE Walking(AsSeq([k \in 1..Len(v.stack) |->
                          WalkFrame(v.stack[k].page, v.stack[k].depth + d)]) \o rest,
                 out \o v.out)

InitWalk ==
    /\ dbfile \in WalkFiles
    /\ debug \in BOOLEAN
    /\ database = NoDb
    /\ pc = "start"
    /\ call = [name |-> "none"]
    /\ ret = [st |-> "none"]
    /\ vdata = <<>> /\ voffset = 0 /\ vpc = "off"
    /\ vwant = [has |-> FALSE, v |-> U64Zero]
    /\ vres = [st |-> "none", value |-> U64Zero, offset |-> 0]

\* an operation is called: its first call of the walk is about to be made
Enter(o) ==
    /\ pc = "open"
    /\ pc' = "walking"
    /\ call' = o
    /\ ret' = Walking(<<WalkFrame(o.root, 1)>>, <<>>)
    /\ UNCHANGED <<dbfile, debug, database>> /\ VarintIdle

EnterScan ==
    Enter([name |-> "get_all_records", root |-> TableRoot(dbfile),
           calls |-> ScanCalls(debug, database, dbfile)])

EnterSearch ==
    \E rowid \in FetchRowids :
        Enter([name |-> "fetch", root |-> TableRoot(dbfile), rowid |-> U64FromNat(rowid),
               calls |-> SearchCalls(debug, database, dbfile, U64FromNat(rowid))])

EnterLookup ==
    \E target \in Targets :
        Enter([name |-> "lookup", root |-> IndexRoot(dbfile), target |-> target,
               calls |-> LookupCalls(debug, database, dbfile, target)])

\* the call on top of the stack is made: it loads its page and returns, or
\* leaves the calls for its children
Turn(r) ==
    /\ ret' = r
    /\ pc' = IF r.st = "walking" THEN "walking" ELSE "done"
    /\ UNCHANGED <<dbfile, debug, database, call>> /\ VarintIdle

StepScan ==
    /\ pc = "walking" /\ call.name = "get_all_records"
    /\ ret.stack[1].depth <= MaxDepth
    /\ Turn(Resume(CallAt(call.calls, ret.stack[1].page),
                   ret.stack[1].depth, Tail(ret.stack), ret.out))

StepSearch ==
    /\ pc = "walking" /\ call.name = "fetch"
    /\ ret.stack[1].depth <= MaxDepth
    /\ Turn(Resume(CallAt(call.calls, ret.stack[1].page),
                   ret.stack[1].depth, <<>>, <<>>))

StepLookup ==
    /\ pc = "walking" /\ call.name = "lookup"
    /\ ret.stack[1].depth <= MaxDepth
    /\ Turn(Resume(CallAt(call.calls, ret.stack[1].page),
                   ret.stack[1].depth, Tail(ret.stack), ret.out))

\* the calls nest deeper than the stack has room for: the process is killed,
\* the operation neither returns nor fails
StackOverflow ==
    /\ pc = "walking"
    /\ ret.stack[1].depth > MaxDepth
    /\ pc' = "killed"
    /\ ret' = [ret EXCEPT !.st = "killed"]
    /\ UNCHANGED <<dbfile, debug, database, call>> /\ VarintIdle

\* the calls of an operation under way
WalkStep ==
    \/ StepScan
    \/ StepSearch
    \/ StepLookup
    \/ StackOverflow

NextWalk ==
    \/ Load
    \/ EnterScan
    \/ EnterSearch
    \/ EnterLookup
    \/ WalkStep

\* an operation under way runs without suspension: its next call is made
SpecWalk == InitWalk /\ [][NextWalk]_vars /\ WF_vars(WalkStep)

\* the operation returned a result or an error
Completed == pc = "done" /\ ret.st \in {"ok", "err"}

\* C13: every operation of the navigator (full scan, search by rowid, index
\* lookup) eventually completes with a result or fails with an error, on
\* every file, also one whose child pointers form a cycle
WalkCompletes == (pc = "walking") ~> Completed

\* what the walks do do: on the files as written every operation completes
WalkOfWrittenFileCompletes ==
    (pc = "walking" /\ dbfile \in WalkBaseFiles) ~> Completed

\* the walks one page at a time return what the operations return
WalkAgreesWithOperation ==
    Completed =>
        CASE call.name = "get_all_records" ->
               LET r == get_all_records(debug, database, dbfile, call.root)
               IN  ret.st = r.st /\ (r.st = "ok" => ret.out = r.records)
          [] call.name = "fetch" ->
               LET r == fetch_record_by_rowid(debug, database, dbfile, call.root, call.rowid)
               IN  ret.st = r.st /\ (r.st = "ok" => ret.out = IF r.found THEN <<r.rec>> ELSE <<>>)
          [] OTHER ->
               LET r == lookup_rowids_by_country(debug, database, dbfile, call.root,
                                                 call.target)
               IN  ret.st = r.st /\ (r.st = "ok" => ret.out = r.rowids)

====
